---- MODULE Spec2Model ----
(***************************************************************************)
(* A model of the acolley/nes emulator core: the 6502 interpreter          *)
(* (src/src/cpu), the Interconnect (src/src/interconnect.rs), the PPU      *)
(* register interface (src/src/ppu/interface.rs), the cartridge and its    *)
(* mappers (src/src/rom) and the scheduler (src/src/nes.rs).               *)
(*                                                                         *)
(* The machine is threaded through the operators as a record m.  A Rust    *)
(* panic aborts the process: it is recorded in m.panic and every later     *)
(* effect of the same operation is skipped, so the record holds the state  *)
(* at the point of failure.  Integer arithmetic keeps its Rust width; a    *)
(* `+`, `-` or `*` that leaves the width panics when the build has         *)
(* overflow checks (a debug build) and wraps when it has not (a release    *)
(* build): overflow_checks is fixed when the machine is built.             *)
(***************************************************************************)
EXTENDS Integers, Sequences, FiniteSets, TLC

VARIABLES
    cpu,              \* Cpu { reg, flags }
    interconnect,     \* Interconnect { ram, cartridge, ppu_interface, dma }
    ppu,              \* Ppu: the ticks it has been stepped
    panic,            \* "none", or the panic that aborted the process
    overflow_checks,  \* the build's integer overflow checks (debug) or none (release)
    ops,              \* the operations applied so far
    obs               \* observation of the operations applied so far

vars == <<cpu, interconnect, ppu, panic, overflow_checks, ops, obs>>

-----------------------------------------------------------------------------
(* Fixed-width integers and bit operations.                                *)

Byte == 0 .. 255

RECURSIVE BitAnd(_, _)
BitAnd(a, b) ==
    IF a = 0 \/ b = 0 THEN 0
    ELSE (a % 2) * (b % 2) + 2 * BitAnd(a \div 2, b \div 2)

RECURSIVE BitOr(_, _)
BitOr(a, b) ==
    IF a = 0 THEN b
    ELSE IF b = 0 THEN a
    ELSE (IF a % 2 = 1 \/ b % 2 = 1 THEN 1 ELSE 0) + 2 * BitOr(a \div 2, b \div 2)

RECURSIVE BitXor(_, _)
BitXor(a, b) ==
    IF a = 0 THEN b
    ELSE IF b = 0 THEN a
    ELSE ((a + b) % 2) + 2 * BitXor(a \div 2, b \div 2)

\* `x as u8`, `x as u16`
AsU8(x) == x % 256
AsU16(x) == x % 65536
\* `x as i8`
AsI8(x) == IF x % 256 >= 128 THEN (x % 256) - 256 ELSE x % 256
\* `b as u8` of a bool
BoolU8(b) == IF b THEN 1 ELSE 0

NoPanic == "none"
Panicked(m) == m.panic # NoPanic
\* panic!(..): the first panic aborts, nothing after it runs.
Abort(m, why) == IF Panicked(m) THEN m ELSE [m EXCEPT !.panic = why]

\* `let v = ..;` followed by the statements In that use v.
Bind(v, In(_)) == In(v)

\* A later statement of an operation: skipped once the process has panicked.
Then(m, m2) == IF Panicked(m) THEN m ELSE m2

\* A u16 `+`, `-`, `*` whose mathematical result is raw.
CheckedU16(m, raw) ==
    IF raw \in 0 .. 65535 THEN [m |-> m, v |-> raw]
    ELSE IF m.overflow_checks THEN [m |-> Abort(m, "arithmetic overflow"), v |-> AsU16(raw)]
    ELSE [m |-> m, v |-> AsU16(raw)]

\* A zero-initialised Vec<u8>, held as the map of its non-zero bytes.
Zeroed == <<>>
Get(vec, i) == IF i \in DOMAIN vec THEN vec[i] ELSE 0
Put(vec, i, x) ==
    IF x = 0 THEN [j \in (DOMAIN vec) \ {i} |-> vec[j]]
    ELSE [j \in (DOMAIN vec) \cup {i} |-> IF j = i THEN x ELSE vec[j]]

-----------------------------------------------------------------------------
(* Flags (cpu.rs)                                                          *)

default_flags ==
    [n |-> FALSE, z |-> FALSE, c |-> FALSE, i |-> FALSE,
     d |-> FALSE, v |-> FALSE, b |-> FALSE]

from_byte(byte) ==
    [n |-> BitAnd(byte, 128) # 0,
     v |-> BitAnd(byte, 64) # 0,
     b |-> BitAnd(byte, 16) # 0,
     d |-> BitAnd(byte, 8) # 0,
     i |-> BitAnd(byte, 4) # 0,
     z |-> BitAnd(byte, 2) # 0,
     c |-> BitAnd(byte, 1) # 0]

\* Flags that never report a zero value.
from_value_n(x) ==
    [default_flags EXCEPT !.n = BitAnd(x, \h80) # 0]

from_value_nz(x) ==
    [default_flags EXCEPT !.n = BitAnd(x, \h80) # 0, !.z = (x = 0)]

from_value_zc(x) ==
    [default_flags EXCEPT !.z = (x = 0), !.c = BitAnd(x, \hFF00) # 0]

from_value_nzc(x) ==
    [from_value_zc(x) EXCEPT !.n = BitAnd(x, \h80) # 0]

as_byte(f) ==
    BitOr(BoolU8(f.n) * 128,
    BitOr(BoolU8(f.v) * 64,
    BitOr(BoolU8(f.b) * 16,
    BitOr(BoolU8(f.d) * 8,
    BitOr(BoolU8(f.i) * 4,
    BitOr(BoolU8(f.z) * 2, BoolU8(f.c)))))))

pages_differ(a, b) == BitAnd(a, \hFF00) # BitAnd(b, \hFF00)

-----------------------------------------------------------------------------
(* Instruction decoder (instruction.rs)                                    *)

\* The match of Instruction::from_code: code => (mnemonic, address_mode, cycles).
OpTable ==
    \h00 :> <<"BRK", "Implied", 7>>
    @@ \h01 :> <<"ORA", "XIndexedIndirect", 6>>
    @@ \h05 :> <<"ORA", "ZeroPage", 3>>
    @@ \h06 :> <<"ASL", "ZeroPage", 5>>
    @@ \h08 :> <<"PHP", "Implied", 3>>
    @@ \h09 :> <<"ORA", "Immediate", 2>>
    @@ \h0A :> <<"ASL", "Accumulator", 2>>
    @@ \h0D :> <<"ORA", "Absolute", 4>>
    @@ \h0E :> <<"ASL", "Absolute", 6>>
    @@ \h10 :> <<"BPL", "Relative", 2>>
    @@ \h11 :> <<"ORA", "IndirectYIndexed", 5>>
    @@ \h15 :> <<"ORA", "ZeroPageXIndexed", 4>>
    @@ \h16 :> <<"ASL", "ZeroPageXIndexed", 6>>
    @@ \h18 :> <<"CLC", "Implied", 2>>
    @@ \h19 :> <<"ORA", "AbsoluteYIndexed", 4>>
    @@ \h1D :> <<"ORA", "AbsoluteXIndexed", 4>>
    @@ \h1E :> <<"ASL", "AbsoluteXIndexed", 7>>
    @@ \h20 :> <<"JSR", "Absolute", 6>>
    @@ \h21 :> <<"AND", "XIndexedIndirect", 6>>
    @@ \h24 :> <<"BIT", "ZeroPage", 3>>
    @@ \h25 :> <<"AND", "ZeroPage", 3>>
    @@ \h26 :> <<"ROL", "ZeroPage", 5>>
    @@ \h28 :> <<"PLP", "Implied", 4>>
    @@ \h29 :> <<"AND", "Immediate", 2>>
    @@ \h2A :> <<"ROL", "Accumulator", 2>>
    @@ \h2C :> <<"BIT", "Absolute", 4>>
    @@ \h2D :> <<"AND", "Absolute", 4>>
    @@ \h2E :> <<"ROL", "Absolute", 6>>
    @@ \h30 :> <<"BMI", "Relative", 2>>
    @@ \h31 :> <<"AND", "IndirectYIndexed", 5>>
    @@ \h35 :> <<"AND", "ZeroPageXIndexed", 4>>
    @@ \h36 :> <<"ROL", "ZeroPageXIndexed", 6>>
    @@ \h38 :> <<"SEC", "Implied", 2>>
    @@ \h39 :> <<"AND", "AbsoluteYIndexed", 4>>
    @@ \h3D :> <<"AND", "AbsoluteXIndexed", 4>>
    @@ \h3E :> <<"ROL", "AbsoluteXIndexed", 7>>
    @@ \h40 :> <<"RTI", "Implied", 6>>
    @@ \h41 :> <<"EOR", "XIndexedIndirect", 6>>
    @@ \h45 :> <<"EOR", "ZeroPage", 3>>
    @@ \h46 :> <<"LSR", "ZeroPage", 5>>
    @@ \h48 :> <<"PHA", "Implied", 3>>
    @@ \h49 :> <<"EOR", "Immediate", 2>>
    @@ \h4A :> <<"LSR", "Accumulator", 2>>
    @@ \h4C :> <<"JMP", "Absolute", 3>>
    @@ \h4D :> <<"EOR", "Absolute", 4>>
    @@ \h4E :> <<"LSR", "Absolute", 6>>
    @@ \h50 :> <<"BVC", "Relative", 2>>
    @@ \h51 :> <<"EOR", "IndirectYIndexed", 5>>
    @@ \h55 :> <<"EOR", "ZeroPageXIndexed", 4>>
    @@ \h56 :> <<"LSR", "ZeroPageXIndexed", 6>>
    @@ \h58 :> <<"CLI", "Implied", 2>>
    @@ \h59 :> <<"EOR", "AbsoluteYIndexed", 4>>
    @@ \h5D :> <<"EOR", "AbsoluteXIndexed", 4>>
    @@ \h5E :> <<"LSR", "AbsoluteXIndexed", 7>>
    @@ \h60 :> <<"RTS", "Implied", 6>>
    @@ \h61 :> <<"ADC", "XIndexedIndirect", 6>>
    @@ \h65 :> <<"ADC", "ZeroPage", 3>>
    @@ \h66 :> <<"ROR", "ZeroPage", 5>>
    @@ \h68 :> <<"PLA", "Implied", 4>>
    @@ \h69 :> <<"ADC", "Immediate", 2>>
    @@ \h6A :> <<"ROR", "Accumulator", 2>>
    @@ \h6C :> <<"JMP", "Indirect", 5>>
    @@ \h6D :> <<"ADC", "Absolute", 4>>
    @@ \h6E :> <<"ROR", "Absolute", 6>>
    @@ \h70 :> <<"BVS", "Relative", 2>>
    @@ \h71 :> <<"ADC", "IndirectYIndexed", 5>>
    @@ \h75 :> <<"ADC", "ZeroPageXIndexed", 4>>
    @@ \h76 :> <<"ROR", "ZeroPageXIndexed", 6>>
    @@ \h78 :> <<"SEI", "Implied", 2>>
    @@ \h79 :> <<"ADC", "AbsoluteYIndexed", 4>>
    @@ \h7D :> <<"ADC", "AbsoluteXIndexed", 4>>
    @@ \h7E :> <<"ROR", "AbsoluteXIndexed", 7>>
    @@ \h81 :> <<"STA", "XIndexedIndirect", 6>>
    @@ \h84 :> <<"STY", "ZeroPage", 3>>
    @@ \h85 :> <<"STA", "ZeroPage", 3>>
    @@ \h86 :> <<"STX", "ZeroPage", 3>>
    @@ \h88 :> <<"DEY", "Implied", 2>>
    @@ \h8A :> <<"TXA", "Implied", 2>>
    @@ \h8C :> <<"STY", "Absolute", 4>>
    @@ \h8D :> <<"STA", "Absolute", 4>>
    @@ \h8E :> <<"STX", "Absolute", 4>>
    @@ \h90 :> <<"BCC", "Relative", 2>>
    @@ \h91 :> <<"STA", "IndirectYIndexed", 6>>
    @@ \h94 :> <<"STY", "ZeroPageXIndexed", 4>>
    @@ \h95 :> <<"STA", "ZeroPageXIndexed", 4>>
    @@ \h96 :> <<"STX", "ZeroPageYIndexed", 4>>
    @@ \h98 :> <<"TYA", "Implied", 2>>
    @@ \h99 :> <<"STA", "AbsoluteYIndexed", 5>>
    @@ \h9A :> <<"TXS", "Implied", 2>>
    @@ \h9D :> <<"STA", "AbsoluteXIndexed", 5>>
    @@ \hA0 :> <<"LDY", "Immediate", 2>>
    @@ \hA1 :> <<"LDA", "XIndexedIndirect", 6>>
    @@ \hA2 :> <<"LDX", "Immediate", 2>>
    @@ \hA4 :> <<"LDY", "ZeroPage", 3>>
    @@ \hA5 :> <<"LDA", "ZeroPage", 3>>
    @@ \hA6 :> <<"LDX", "ZeroPage", 3>>
    @@ \hA8 :> <<"TAY", "Implied", 2>>
    @@ \hA9 :> <<"LDA", "Immediate", 2>>
    @@ \hAA :> <<"TAX", "Implied", 2>>
    @@ \hAC :> <<"LDY", "Absolute", 4>>
    @@ \hAD :> <<"LDA", "Absolute", 4>>
    @@ \hAE :> <<"LDX", "Absolute", 4>>
    @@ \hB0 :> <<"BCS", "Relative", 2>>
    @@ \hB1 :> <<"LDA", "IndirectYIndexed", 5>>
    @@ \hB4 :> <<"LDY", "ZeroPageXIndexed", 4>>
    @@ \hB5 :> <<"LDA", "ZeroPageXIndexed", 4>>
    @@ \hB6 :> <<"LDX", "ZeroPageYIndexed", 4>>
    @@ \hB8 :> <<"CLV", "Implied", 2>>
    @@ \hB9 :> <<"LDA", "AbsoluteYIndexed", 4>>
    @@ \hBA :> <<"TSX", "Implied", 2>>
    @@ \hBC :> <<"LDY", "AbsoluteXIndexed", 4>>
    @@ \hBD :> <<"LDA", "AbsoluteXIndexed", 4>>
    @@ \hBE :> <<"LDX", "AbsoluteYIndexed", 4>>
    @@ \hC0 :> <<"CPY", "Immediate", 2>>
    @@ \hC1 :> <<"CMP", "XIndexedIndirect", 6>>
    @@ \hC4 :> <<"CPY", "ZeroPage", 3>>
    @@ \hC5 :> <<"CMP", "ZeroPage", 3>>
    @@ \hC6 :> <<"DEC", "ZeroPage", 5>>
    @@ \hC8 :> <<"INY", "Implied", 2>>
    @@ \hC9 :> <<"CMP", "Immediate", 2>>
    @@ \hCA :> <<"DEX", "Implied", 2>>
    @@ \hCC :> <<"CPY", "Absolute", 4>>
    @@ \hCD :> <<"CMP", "Absolute", 4>>
    @@ \hCE :> <<"DEC", "Absolute", 3>>
    @@ \hD0 :> <<"BNE", "Relative", 2>>
    @@ \hD1 :> <<"CMP", "IndirectYIndexed", 5>>
    @@ \hD5 :> <<"CMP", "ZeroPageXIndexed", 4>>
    @@ \hD6 :> <<"DEC", "ZeroPageXIndexed", 6>>
    @@ \hD8 :> <<"CLD", "Implied", 2>>
    @@ \hD9 :> <<"CMP", "AbsoluteYIndexed", 4>>
    @@ \hDD :> <<"CMP", "AbsoluteXIndexed", 4>>
    @@ \hDE :> <<"DEC", "AbsoluteXIndexed", 7>>
    @@ \hE0 :> <<"CPX", "Immediate", 2>>
    @@ \hE1 :> <<"SBC", "XIndexedIndirect", 6>>
    @@ \hE4 :> <<"CPX", "ZeroPage", 3>>
    @@ \hE5 :> <<"SBC", "ZeroPage", 3>>
    @@ \hE6 :> <<"INC", "ZeroPage", 5>>
    @@ \hE8 :> <<"INX", "Implied", 2>>
    @@ \hE9 :> <<"SBC", "Immediate", 2>>
    @@ \hEA :> <<"NOP", "Implied", 2>>
    @@ \hEC :> <<"CPX", "Absolute", 4>>
    @@ \hED :> <<"SBC", "Absolute", 4>>
    @@ \hEE :> <<"INC", "Absolute", 6>>
    @@ \hF0 :> <<"BEQ", "Relative", 2>>
    @@ \hF1 :> <<"SBC", "IndirectYIndexed", 5>>
    @@ \hF5 :> <<"SBC", "ZeroPageXIndexed", 4>>
    @@ \hF6 :> <<"INC", "ZeroPageXIndexed", 6>>
    @@ \hF8 :> <<"SED", "Implied", 2>>
    @@ \hF9 :> <<"SBC", "AbsoluteYIndexed", 4>>
    @@ \hFD :> <<"SBC", "AbsoluteXIndexed", 4>>
    @@ \hFE :> <<"INC", "AbsoluteXIndexed", 7>>

\* A decoder that takes every byte outside the table for a NOP.
from_code_lenient(c) ==
    IF c \in DOMAIN OpTable
    THEN [ok |-> TRUE, code |-> c, mnemonic |-> OpTable[c][1],
          address_mode |-> OpTable[c][2], cycles |-> OpTable[c][3]]
    ELSE [ok |-> TRUE, code |-> c, mnemonic |-> "NOP",
          address_mode |-> "Implied", cycles |-> 2]

\* A decoder that charges one cycle less than the table.
from_code_discounted(c) ==
    IF c \in DOMAIN OpTable
    THEN [ok |-> TRUE, code |-> c, mnemonic |-> OpTable[c][1],
          address_mode |-> OpTable[c][2], cycles |-> OpTable[c][3] - 1]
    ELSE [ok |-> FALSE, code |-> c, mnemonic |-> "none",
          address_mode |-> "none", cycles |-> 0]

\* Instruction::from_code; ok = FALSE is the panic of the catch-all arm.
from_code(c) ==
    IF c \in DOMAIN OpTable
    THEN [ok |-> TRUE, code |-> c, mnemonic |-> OpTable[c][1],
          address_mode |-> OpTable[c][2], cycles |-> OpTable[c][3]]
    ELSE [ok |-> FALSE, code |-> c, mnemonic |-> "none",
          address_mode |-> "none", cycles |-> 0]

-----------------------------------------------------------------------------
(* PPU register interface (ppu/interface.rs)                               *)

default_control ==
    [name_table_address |-> \h2000, addr_inc |-> 1,
     sprite_pattern_table |-> 0, background_pattern_table |-> 0,
     sprite_x |-> 8, sprite_y |-> 8, nmi |-> FALSE]

\* Control::apply
control_apply(c, x) ==
    [c EXCEPT
       !.name_table_address =
           CASE BitAnd(x, 3) = 0 -> \h2000
             [] BitAnd(x, 3) = 1 -> \h2400
             [] BitAnd(x, 3) = 2 -> \h2800
             [] OTHER -> \h2C00,
       !.addr_inc = IF BitAnd(x, 4) = 0 THEN 1 ELSE 32,
       !.sprite_pattern_table = IF BitAnd(x, 8) = 0 THEN 0 ELSE \h1000,
       !.background_pattern_table = IF BitAnd(x, 16) = 0 THEN 0 ELSE \h1000,
       !.sprite_y = IF BitAnd(x, 32) = 0 THEN 8 ELSE 16,
       !.nmi = BitAnd(x, 128) # 0]

default_mask ==
    [red |-> FALSE, green |-> FALSE, blue |-> FALSE, sprites |-> FALSE,
     background |-> FALSE, left_sprites |-> FALSE, left_background |-> FALSE,
     colour_mode |-> "Colour"]

\* Mask::apply
mask_apply(k, x) ==
    [colour_mode |-> IF BitAnd(x, 1) = 0 THEN "Colour" ELSE "Monochrome",
     left_background |-> BitAnd(x, 2) # 0,
     left_sprites |-> BitAnd(x, 4) # 0,
     background |-> BitAnd(x, 8) # 0,
     sprites |-> BitAnd(x, 16) # 0,
     red |-> BitAnd(x, 32) # 0,
     green |-> BitAnd(x, 64) # 0,
     blue |-> BitAnd(x, 128) # 0]

\* PpuInterface::new
new_ppu_interface ==
    [mem |-> Zeroed, spr_ram |-> Zeroed, spr_addr |-> 0,
     control |-> default_control, mask |-> default_mask,
     flags |-> [vblank |-> FALSE, writes |-> FALSE], addr |-> 0]

\* PpuInterface::read
ppu_read(p, addr) == Get(p.mem, addr % \h4000)

\* PpuInterface::write
ppu_write(p, addr, x) == [p EXCEPT !.mem = Put(p.mem, addr % \h4000, x)]

\* PpuInterface::write_spr
write_spr(p, addr, x) == [p EXCEPT !.spr_ram = Put(p.spr_ram, addr, x)]

\* PpuInterface::read_status_register
read_status_register(m) ==
    LET p == m.interconnect.ppu_interface
        sr == BitOr(BoolU8(p.flags.vblank) * 128, BoolU8(p.flags.writes) * 16)
    IN  [m |-> [m EXCEPT !.interconnect.ppu_interface.flags.vblank = FALSE],
         v |-> sr]

\* The address taken as it comes, without the fold.
register_address_unfolded(addr) == addr

\* `let addr = 0x2000 + (addr % 8)` of read_register and write_register
register_address(addr) == \h2000 + (addr % 8)

\* PpuInterface::read_register
read_register(m, addr) ==
    LET reg_addr == register_address(addr)
        p == m.interconnect.ppu_interface
    IN  CASE reg_addr \in {\h2000, \h2001} ->
               [m |-> Abort(m, "read of write-only PPU register"), v |-> 0]
          [] reg_addr = \h2002 -> read_status_register(m)
          [] reg_addr \in \h2003 .. \h2006 ->
               [m |-> Abort(m, "read of write-only PPU register"), v |-> 0]
          [] reg_addr = \h2007 ->
               Bind(CheckedU16(m, p.addr + p.control.addr_inc), LAMBDA next_addr :
                   IF Panicked(next_addr.m) THEN [m |-> next_addr.m, v |-> 0]
                   ELSE [m |-> [m EXCEPT !.interconnect.ppu_interface.addr = next_addr.v],
                         v |-> ppu_read(p, p.addr)])
          [] OTHER -> [m |-> Abort(m, "invalid PPU register read address"), v |-> 0]

\* PpuInterface::write_register
write_register(m, addr, x) ==
    LET reg_addr == register_address(addr)
        p == m.interconnect.ppu_interface
    IN  CASE reg_addr = \h2000 ->
               [m EXCEPT !.interconnect.ppu_interface.control = control_apply(p.control, x)]
          [] reg_addr = \h2001 ->
               [m EXCEPT !.interconnect.ppu_interface.mask = mask_apply(p.mask, x)]
          [] reg_addr = \h2002 -> Abort(m, "write to read-only PPU status register")
          [] reg_addr = \h2003 ->
               [m EXCEPT !.interconnect.ppu_interface.spr_addr = x]
          [] reg_addr = \h2004 ->
               [m EXCEPT !.interconnect.ppu_interface.spr_ram = Put(p.spr_ram, p.spr_addr, x)]
          [] reg_addr = \h2006 ->
               [m EXCEPT !.interconnect.ppu_interface.addr = BitOr(AsU16(p.addr * 256), x)]
          [] reg_addr = \h2007 ->
               [m EXCEPT !.interconnect.ppu_interface = ppu_write(p, p.addr, x)]
          [] OTHER -> Abort(m, "invalid PPU register write address")

-----------------------------------------------------------------------------
(* Cartridge and mappers (rom/rom.rs, rom/mapper.rs)                       *)

PrgBank == 16384
ChrBank == 8192
SramBank == 8192

\* INesHeader::sram: the length of the SRAM vector
sram_len(nram) == IF nram = 0 THEN SramBank ELSE SramBank * nram

\* Mapper::map_sram (Mapper0, Mapper1)
map_sram(m, addr) ==
    IF m.interconnect.cartridge.mapper = 0
    THEN CheckedU16(m, addr - \h6000)
    ELSE [m |-> m, v |-> 0]

\* Mapper::map_prg (Mapper0, Mapper1)
map_prg(m, addr) ==
    IF m.interconnect.cartridge.mapper = 0
    THEN Bind(CheckedU16(m, addr - \h8000), LAMBDA base :
         Bind(CheckedU16(base.m, \h4000 * m.interconnect.cartridge.nprg), LAMBDA size :
             IF Panicked(size.m) THEN [m |-> size.m, v |-> 0]
             ELSE IF size.v = 0 THEN [m |-> Abort(m, "remainder with a divisor of zero"), v |-> 0]
             ELSE [m |-> m, v |-> base.v % size.v]))
    ELSE [m |-> m, v |-> 0]

\* Mapper::map_chr (Mapper0 is unimplemented!(), Mapper1)
map_chr(m, addr) ==
    IF m.interconnect.cartridge.mapper = 0
    THEN [m |-> Abort(m, "not yet implemented"), v |-> 0]
    ELSE [m |-> m, v |-> 0]

\* vec[offset] of a vector of length len: out of bounds panics
Index(at, vec, len) ==
    IF Panicked(at.m) THEN [m |-> at.m, v |-> 0]
    ELSE IF at.v >= len THEN [m |-> Abort(at.m, "index out of bounds"), v |-> 0]
    ELSE [m |-> at.m, v |-> Get(vec, at.v)]

\* Cartridge::read
cartridge_read(m, addr) ==
    LET c == m.interconnect.cartridge
    IN  CASE addr \in 0 .. \h1FFF -> Index(map_chr(m, addr), c.chr, ChrBank * c.nchr)
          [] addr \in \h6000 .. \h7FFF -> Index(map_sram(m, addr), c.sram, sram_len(c.nram))
          [] addr \in \h8000 .. \hFFFF -> Index(map_prg(m, addr), c.prg, PrgBank * c.nprg)
          [] OTHER -> [m |-> Abort(m, "invalid memory access"), v |-> 0]

\* vec[offset] = x
IndexSet(at, field, len, x) ==
    IF Panicked(at.m) THEN at.m
    ELSE IF at.v >= len THEN Abort(at.m, "index out of bounds")
    ELSE [at.m EXCEPT !.interconnect.cartridge[field] =
              Put(at.m.interconnect.cartridge[field], at.v, x)]

\* Cartridge::write
cartridge_write(m, addr, x) ==
    LET c == m.interconnect.cartridge
    IN  CASE addr \in 0 .. \h1FFF -> IndexSet(map_chr(m, addr), "chr", ChrBank * c.nchr, x)
          [] addr \in \h6000 .. \h7FFF -> IndexSet(map_sram(m, addr), "sram", sram_len(c.nram), x)
          [] addr \in \h8000 .. \hFFFF -> IndexSet(map_prg(m, addr), "prg", PrgBank * c.nprg, x)
          [] OTHER -> Abort(m, "invalid memory access")

-----------------------------------------------------------------------------
(* Interconnect (interconnect.rs)                                          *)

\* Interconnect::new
new_interconnect(cartridge) ==
    [ram |-> Zeroed, cartridge |-> cartridge,
     ppu_interface |-> new_ppu_interface, dma |-> FALSE]

Logged(m, k, addr, x) == [m EXCEPT !.log = Append(@, [k |-> k, a |-> addr, x |-> x])]

\* `let offset = addr % 0x0800` of cpu_read
read_offset(addr) == addr % \h0800

\* A write that indexes the 0x2000-byte vector by the address itself.
write_offset_unmirrored(addr) == addr % \h2000

\* `let offset = addr % 0x0800` of cpu_write
write_offset(addr) == addr % \h0800

\* Interconnect::cpu_read
cpu_read(m, addr) ==
    IF Panicked(m) THEN [m |-> m, v |-> 0]
    ELSE Bind(CASE addr \in 0 .. \h1FFF ->
                     [m |-> m, v |-> Get(m.interconnect.ram, read_offset(addr))]
                [] addr \in \h2000 .. \h3FFF -> read_register(m, addr)
                [] addr = \h4014 ->
                     [m |-> Abort(m, "read of write-only PPU DMA register"), v |-> 0]
                [] addr \in (\h4000 .. \h4013) \cup (\h4015 .. \h4017) ->
                     [m |-> Abort(m, "I/O reads not implemented"), v |-> 0]
                [] addr \in \h4020 .. \h5FFF ->
                     [m |-> Abort(m, "Expansion ROM reads not implemented"), v |-> 0]
                [] addr \in \h6000 .. \hFFFF -> cartridge_read(m, addr)
                [] OTHER -> [m |-> Abort(m, "catch-all arm of cpu_read"), v |-> 0],
              LAMBDA r : [m |-> Logged(r.m, "r", addr, r.v), v |-> r.v])

\* Interconnect::cpu_read_u16
cpu_read_u16(m, addr) ==
    Bind(cpu_read(m, addr), LAMBDA lo :
    Bind(CheckedU16(lo.m, addr + 1), LAMBDA hi_addr :
    Bind(cpu_read(hi_addr.m, hi_addr.v), LAMBDA hi :
        [m |-> hi.m, v |-> BitOr(lo.v, AsU16(hi.v * 256))])))

\* `x * 0x100` of cpu_write: x is a u8, so the literal is a u8 too and keeps
\* only its low eight bits.
DmaPageFactor == \h100 % 256

\* One iteration of the loop of the 0x4014 arm of cpu_write.
dma_iteration(m, dma_addr, i) ==
    Bind(CheckedU16(m, dma_addr + i), LAMBDA src :
    Bind(cpu_read(src.m, src.v), LAMBDA value :
        Then(value.m, [value.m EXCEPT !.interconnect.ppu_interface =
                           write_spr(@, AsU8(i), value.v)])))

\* `for i in 0..256 { .. }`: the iterations from..to-1 in order, the first
\* half before the second; a panic ends the loop.
RECURSIVE dma_copy(_, _, _, _)
dma_copy(m, dma_addr, from, to) ==
    IF Panicked(m) \/ from >= to THEN m
    ELSE IF to - from = 1 THEN dma_iteration(m, dma_addr, from)
    ELSE dma_copy(dma_copy(m, dma_addr, from, (from + to) \div 2),
                  dma_addr, (from + to) \div 2, to)

\* Interconnect::cpu_write
cpu_write(m, addr, x) ==
    IF Panicked(m) THEN m
    ELSE Bind(Logged(m, "w", addr, x), LAMBDA w :
             CASE addr \in 0 .. \h1FFF ->
                    [w EXCEPT !.interconnect.ram = Put(@, write_offset(addr), x)]
               [] addr \in \h2000 .. \h3FFF -> write_register(w, addr, x)
               [] addr = \h4014 ->
                    IF x * DmaPageFactor > 255 /\ w.overflow_checks
                    THEN Abort(w, "arithmetic overflow")
                    ELSE dma_copy(w, AsU8(x * DmaPageFactor), 0, 256)
               [] addr \in (\h4000 .. \h4013) \cup (\h4015 .. \h4017) ->
                    Abort(w, "I/O writes not implemented")
               [] addr \in \h4020 .. \h5FFF ->
                    Abort(w, "Expansion ROM writes not implemented")
               [] addr \in \h6000 .. \hFFFF -> cartridge_write(w, addr, x)
               [] OTHER -> Abort(w, "catch-all arm of cpu_write"))

\* Interconnect::dma
dma(m) == m.interconnect.dma

\* Interconnect::set_dma
set_dma(m, value) == Then(m, [m EXCEPT !.interconnect.dma = value])

-----------------------------------------------------------------------------
(* CPU (cpu/cpu.rs)                                                        *)

\* Registers::new
new_registers == [pc |-> 0, sp |-> \hFD, a |-> 0, x |-> 0, y |-> 0]

\* Cpu::new
new_cpu == [reg |-> new_registers, flags |-> default_flags]

\* (lo as u16) | ((hi as u16) << 8)
Word(lo, hi) == BitOr(lo, AsU16(hi * 256))

\* A reset that takes PC from the IRQ/BRK vector.
reset_through_irq_vector(m) ==
    Bind(cpu_read_u16(m, \hFFFE), LAMBDA vector :
        Then(vector.m, [vector.m EXCEPT !.cpu.reg.pc = vector.v,
                                        !.cpu.reg.sp = \hFD,
                                        !.cpu.flags = from_byte(\h24)]))

\* Cpu::reset
reset(m) ==
    Bind(cpu_read_u16(m, \hFFFC), LAMBDA vector :
        Then(vector.m, [vector.m EXCEPT !.cpu.reg.pc = vector.v,
                                        !.cpu.reg.sp = \hFD,
                                        !.cpu.flags = from_byte(\h24)]))

\* Cpu::peek
peek(m) == cpu_read(m, m.cpu.reg.pc)

\* A fetch that leaves PC where it is.
next_in_place(m) ==
    Bind(peek(m), LAMBDA x :
        [m |-> Then(x.m, [x.m EXCEPT !.fetch = Append(@, m.cpu.reg.pc)]), v |-> x.v])

\* Cpu::next: the byte at PC, and PC advanced by one.
next(m) ==
    Bind(peek(m), LAMBDA x :
    Bind(CheckedU16(x.m, m.cpu.reg.pc + 1), LAMBDA pc :
        [m |-> Then(pc.m, [pc.m EXCEPT !.cpu.reg.pc = pc.v,
                                       !.fetch = Append(@, m.cpu.reg.pc)]),
         v |-> x.v]))

\* Cpu::next_u16
next_u16(m) ==
    Bind(next(m), LAMBDA lo :
    Bind(next(lo.m), LAMBDA hi :
        [m |-> hi.m, v |-> Word(lo.v, hi.v)]))

\* Cpu::skip_peek
skip_peek(m, skip) ==
    Bind(CheckedU16(m, m.cpu.reg.pc + AsU16(skip)), LAMBDA at :
        cpu_read(at.m, at.v))

\* Cpu::peek_u16
peek_u16(m) ==
    Bind(peek(m), LAMBDA lo :
    Bind(skip_peek(lo.m, 1), LAMBDA hi :
        [m |-> hi.m, v |-> Word(lo.v, hi.v)]))

\* Cpu::skip_peek_u16
skip_peek_u16(m, skip) ==
    Bind(skip_peek(m, skip), LAMBDA lo :
    Bind(skip_peek(lo.m, skip + 1), LAMBDA hi :
        [m |-> hi.m, v |-> Word(lo.v, hi.v)]))

\* Cpu::absolute
absolute(m) == next_u16(m)

\* Cpu::indirect
indirect(m) ==
    Bind(next_u16(m), LAMBDA base :
    Bind(cpu_read(base.m, base.v), LAMBDA lo :
    Bind(CheckedU16(lo.m, base.v + 1), LAMBDA hi_addr :
    Bind(cpu_read(hi_addr.m, hi_addr.v), LAMBDA hi :
        [m |-> hi.m, v |-> Word(lo.v, hi.v)]))))

\* Cpu::x_indexed_indirect
x_indexed_indirect(m, base) ==
    Bind(cpu_read(m, AsU8(base + m.cpu.reg.x)), LAMBDA lo :
    Bind(cpu_read(lo.m, AsU8(AsU8(base + m.cpu.reg.x) + 1)), LAMBDA hi :
        [m |-> hi.m, addr |-> Word(lo.v, hi.v), cycles |-> 0]))

\* Cpu::indirect_indexed
indirect_indexed(m, base) ==
    Bind(cpu_read(m, base), LAMBDA lo :
    Bind(cpu_read(lo.m, AsU8(base + 1)), LAMBDA hi :
    Bind(AsU16(Word(lo.v, hi.v) + m.cpu.reg.y), LAMBDA addr :
    Bind(CheckedU16(hi.m, addr - m.cpu.reg.y), LAMBDA back :
        [m |-> back.m, addr |-> addr,
         cycles |-> IF pages_differ(addr, back.v) THEN 1 ELSE 0]))))

\* Cpu::zero_page_indexed_x
zero_page_indexed_x(m, base) == AsU8(base + m.cpu.reg.x)

\* Cpu::zero_page_indexed_y
zero_page_indexed_y(m, base) == AsU8(base + m.cpu.reg.y)

\* Cpu::indexed_absolute_x
indexed_absolute_x(m, base) ==
    LET addr == AsU16(base + m.cpu.reg.x)
    IN  [m |-> m, addr |-> addr, cycles |-> IF pages_differ(base, addr) THEN 1 ELSE 0]

\* Cpu::indexed_absolute_y
indexed_absolute_y(m, base) ==
    LET addr == AsU16(base + m.cpu.reg.y)
    IN  [m |-> m, addr |-> addr, cycles |-> IF pages_differ(base, addr) THEN 1 ELSE 0]

\* Cpu::relative
relative(m, offset) ==
    LET addr == AsU16(m.cpu.reg.pc + AsI8(offset))
    IN  [m |-> m, addr |-> addr,
         cycles |-> IF pages_differ(m.cpu.reg.pc, addr) THEN 2 ELSE 1]

\* Cpu::push
push(m, x) ==
    Bind(cpu_write(m, m.cpu.reg.sp, x), LAMBDA w :
    Bind(CheckedU16(w, m.cpu.reg.sp - 1), LAMBDA sp :
        Then(sp.m, [sp.m EXCEPT !.cpu.reg.sp = sp.v])))

\* Cpu::push_u16
push_u16(m, x) == push(push(m, AsU8(x \div 256)), AsU8(x))

\* Cpu::php
php(m) == push(m, as_byte(m.cpu.flags))

\* Cpu::pop
pop(m) ==
    Bind(cpu_read(m, m.cpu.reg.sp), LAMBDA value :
    Bind(CheckedU16(value.m, m.cpu.reg.sp + 1), LAMBDA sp :
        [m |-> Then(sp.m, [sp.m EXCEPT !.cpu.reg.sp = sp.v]), v |-> value.v]))

\* Cpu::pop_u16
pop_u16(m) ==
    Bind(pop(m), LAMBDA lo :
    Bind(pop(lo.m), LAMBDA hi :
        [m |-> hi.m, v |-> Word(lo.v, hi.v)]))

\* Cpu::cmp
cmp(m, x, y) ==
    Bind(CheckedU16(m, x - y), LAMBDA value :
        Then(value.m, [value.m EXCEPT !.cpu.flags = from_value_nzc(value.v)]))

None == "None"

\* An address resolved, then the byte read at it.
Valued(r) ==
    Bind(cpu_read(r.m, r.addr), LAMBDA value :
        [m |-> value.m, addr |-> r.addr, v |-> value.v, cycles |-> r.cycles])

\* An operand byte fetched, then used as the base of a mode.
At(m, addr) == [m |-> m, addr |-> addr, cycles |-> 0]

\* Cpu::get_address
get_address(m, address_mode) ==
    CASE address_mode = "Absolute" ->
           Bind(absolute(m), LAMBDA a : At(a.m, a.v))
      [] address_mode = "AbsoluteXIndexed" ->
           Bind(absolute(m), LAMBDA base : indexed_absolute_x(base.m, base.v))
      [] address_mode = "AbsoluteYIndexed" ->
           Bind(absolute(m), LAMBDA base : indexed_absolute_y(base.m, base.v))
      [] address_mode = "Indirect" ->
           Bind(indirect(m), LAMBDA a : At(a.m, a.v))
      [] address_mode = "XIndexedIndirect" ->
           Bind(next(m), LAMBDA base : x_indexed_indirect(base.m, base.v))
      [] address_mode = "IndirectYIndexed" ->
           Bind(next(m), LAMBDA base : indirect_indexed(base.m, base.v))
      [] address_mode = "Relative" ->
           Bind(next(m), LAMBDA offset : relative(offset.m, offset.v))
      [] address_mode = "ZeroPage" ->
           Bind(next(m), LAMBDA a : At(a.m, a.v))
      [] address_mode = "ZeroPageXIndexed" ->
           Bind(next(m), LAMBDA base : At(base.m, zero_page_indexed_x(base.m, base.v)))
      [] address_mode = "ZeroPageYIndexed" ->
           Bind(next(m), LAMBDA base : At(base.m, zero_page_indexed_y(base.m, base.v)))
      [] OTHER -> At(Abort(m, "No address for mode"), 0)

\* Cpu::get_address_and_value
get_address_and_value(m, address_mode) ==
    CASE address_mode = "Accumulator" ->
           [m |-> m, addr |-> None, v |-> m.cpu.reg.a, cycles |-> 0]
      [] address_mode = "Immediate" ->
           Bind(next(m), LAMBDA x : [m |-> x.m, addr |-> None, v |-> x.v, cycles |-> 0])
      [] address_mode = "Implied" ->
           [m |-> Abort(m, "No address or value for AddressMode"),
            addr |-> None, v |-> 0, cycles |-> 0]
      [] OTHER -> Valued(get_address(m, address_mode))

\* Cpu::get_address_value
get_address_value(m, address_mode) ==
    Bind(get_address_and_value(m, address_mode), LAMBDA r :
        [m |-> r.m, v |-> r.v, cycles |-> r.cycles])

\* The closure's result (value, flags), or its panic.
Modified(value, flags) == [v |-> value, flags |-> flags, panics |-> FALSE]

\* Flags::from_value_nzcv: panic!("Implement setting v flag")
from_value_nzcv(x) == [v |-> 0, flags |-> from_value_nzc(x), panics |-> TRUE]

\* Cpu::with_address_modify
with_address_modify(m, address_mode, f) ==
    CASE address_mode = "Accumulator" ->
           Bind(f[m.cpu.reg.a], LAMBDA r :
               IF r.panics THEN [m |-> Abort(m, "Implement setting v flag"), cycles |-> 0]
               ELSE [m |-> Then(m, [m EXCEPT !.cpu.reg.a = r.v, !.cpu.flags = r.flags]),
                     cycles |-> 0])
      [] address_mode = "Immediate" ->
           Bind(next(m), LAMBDA value :
               IF f[value.v].panics
               THEN [m |-> Abort(value.m, "Implement setting v flag"), cycles |-> 0]
               ELSE [m |-> value.m, cycles |-> 0])
      [] OTHER ->
           Bind(get_address_and_value(m, address_mode), LAMBDA av :
           Bind(f[av.v], LAMBDA r :
               IF r.panics
               THEN [m |-> Abort(av.m, "Implement setting v flag"), cycles |-> 0]
               ELSE Bind(cpu_write(av.m, av.addr, r.v), LAMBDA w :
                        [m |-> Then(w, [w EXCEPT !.cpu.flags = r.flags]),
                         cycles |-> av.cycles])))

\* u8::rotate_left(1), u8::rotate_right(1), u16::rotate_left(1), u16::rotate_right(1)
RotL8(x) == AsU8(x * 2) + (x \div 128)
RotR8(x) == (x \div 2) + (x % 2) * 128
RotL16(x) == AsU16(x * 2) + (x \div 32768)
RotR16(x) == (x \div 2) + (x % 2) * 32768

\* The closures handed to with_address_modify by Cpu::step.
adc_f(a, c, value) == from_value_nzcv(a + value + c)
and_f(a, value) == Modified(BitAnd(a, value), from_value_nz(BitAnd(a, value)))
asl_f(value) == Modified(AsU8(value * 2), from_value_nzc(AsU16(value * 2)))
dec_f(value) == Modified(AsU8(value - 1), from_value_nz(AsU8(value - 1)))
inc_f(value) == Modified(AsU8(value + 1), from_value_nz(AsU8(value + 1)))
lsr_f(value) == Modified(AsU8(value \div 2), from_value_zc(value \div 2))
rol_f(value) == Modified(RotL8(AsU8(RotL16(value))), from_value_nzc(RotL16(value)))
ror_f(value) == Modified(RotR8(AsU8(RotR16(value))), from_value_nzc(RotR16(value)))
sbc_f(a, c, value) == from_value_nzcv(AsU16(AsU16(a - value) - c))

\* The branch arms of Cpu::step (BCC, BCS, BEQ, BMI, BNE, BPL, BVC, BVS).
branch(m, address_mode, flag, taken_when) ==
    Bind(get_address(m, address_mode), LAMBDA r :
        [m |-> IF r.m.cpu.flags[flag] = taken_when
               THEN Then(r.m, [r.m EXCEPT !.cpu.reg.pc = r.addr])
               ELSE r.m,
         cycles |-> r.cycles])

\* The compare arms of Cpu::step (CMP, CPX, CPY).
compare(m, address_mode, register) ==
    Bind(get_address_value(m, address_mode), LAMBDA r :
        [m |-> cmp(r.m, m.cpu.reg[register], r.v), cycles |-> r.cycles])

\* The load arms of Cpu::step (LDA, LDX, LDY).
load(m, address_mode, register) ==
    Bind(get_address_value(m, address_mode), LAMBDA r :
        [m |-> Then(r.m, [r.m EXCEPT !.cpu.reg[register] = r.v,
                                     !.cpu.flags = from_value_nz(r.v)]),
         cycles |-> r.cycles])

\* The store arms of Cpu::step (STA, STX, STY).
store(m, address_mode, register) ==
    Bind(get_address(m, address_mode), LAMBDA r :
        [m |-> cpu_write(r.m, r.addr, m.cpu.reg[register]), cycles |-> r.cycles])

\* The EOR and ORA arms of Cpu::step.
logic(m, address_mode, op) ==
    Bind(get_address_value(m, address_mode), LAMBDA r :
    Bind(op[r.v, m.cpu.reg.a], LAMBDA a :
        [m |-> Then(r.m, [r.m EXCEPT !.cpu.reg.a = a, !.cpu.flags = from_value_nz(a)]),
         cycles |-> r.cycles]))

\* The INX, INY, DEX, DEY arms of Cpu::step.
bump(m, register, by) ==
    LET x == AsU8(m.cpu.reg[register] + by)
    IN  [m |-> Then(m, [m EXCEPT !.cpu.reg[register] = x, !.cpu.flags = from_value_nz(x)]),
         cycles |-> 0]

\* The flag arms of Cpu::step (CLC, CLD, CLI, CLV, SEC, SED, SEI).
set_flag(m, flag, value) ==
    [m |-> Then(m, [m EXCEPT !.cpu.flags[flag] = value]), cycles |-> 0]

\* The transfer arms of Cpu::step (TAX, TAY, TSX, TXA, TXS, TYA).
transfer(m, from, to) ==
    [m |-> Then(m, [m EXCEPT !.cpu.reg[to] =
                        IF to = "sp" THEN AsU16(m.cpu.reg[from]) ELSE AsU8(m.cpu.reg[from])]),
     cycles |-> 0]

\* The BIT arm of Cpu::step.
bit(m, address_mode) ==
    Bind(get_address_value(m, address_mode), LAMBDA r :
        [m |-> Then(r.m, [r.m EXCEPT !.cpu.flags.n = BitAnd(r.v, 128) # 0,
                                     !.cpu.flags.v = BitAnd(r.v, 64) # 0,
                                     !.cpu.flags.z = BitAnd(m.cpu.reg.a, r.v) # 0]),
         cycles |-> r.cycles])

\* The BRK arm of Cpu::step.
brk(m) ==
    Bind(Then(m, [m EXCEPT !.cpu.flags.i = TRUE]), LAMBDA disabled :
    Bind(php(push_u16(disabled, disabled.cpu.reg.pc)), LAMBDA pushed :
    Bind(cpu_read_u16(pushed, \hFFFE), LAMBDA vector :
        [m |-> Then(vector.m, [vector.m EXCEPT !.cpu.reg.pc = vector.v]), cycles |-> 0])))

\* The JMP arm of Cpu::step.
jmp(m, address_mode) ==
    Bind(get_address(m, address_mode), LAMBDA r :
        [m |-> Then(r.m, [r.m EXCEPT !.cpu.reg.pc = r.addr]), cycles |-> r.cycles])

\* The JSR arm of Cpu::step.
jsr(m, address_mode) ==
    Bind(get_address(m, address_mode), LAMBDA r :
    Bind(push_u16(r.m, r.m.cpu.reg.pc), LAMBDA pushed :
        [m |-> Then(pushed, [pushed EXCEPT !.cpu.reg.pc = r.addr]), cycles |-> r.cycles]))

\* The PLA arm of Cpu::step.
pla(m) ==
    Bind(pop(m), LAMBDA r :
        [m |-> Then(r.m, [r.m EXCEPT !.cpu.reg.a = r.v]), cycles |-> 0])

\* The PLP arm of Cpu::step.
plp(m) ==
    Bind(pop(m), LAMBDA r :
        [m |-> Then(r.m, [r.m EXCEPT !.cpu.flags = from_byte(r.v)]), cycles |-> 0])

\* The RTI arm of Cpu::step.
rti(m) ==
    Bind(pop_u16(plp(m).m), LAMBDA pc :
        [m |-> Then(pc.m, [pc.m EXCEPT !.cpu.reg.pc = pc.v]), cycles |-> 0])

\* The RTS arm of Cpu::step.
rts(m) ==
    Bind(pop_u16(m), LAMBDA r :
    Bind(CheckedU16(r.m, r.v + 1), LAMBDA pc :
        [m |-> Then(pc.m, [pc.m EXCEPT !.cpu.reg.pc = pc.v]), cycles |-> 0]))

\* The match of Cpu::step on instruction.mnemonic: the machine after the arm
\* and the arm's page_cycles.
execute(m, instruction) ==
    LET mode == instruction.address_mode
        mn == instruction.mnemonic
        a == m.cpu.reg.a
        c == BoolU8(m.cpu.flags.c)
    IN  CASE mn = "ADC" -> with_address_modify(m, mode, [value \in Byte |-> adc_f(a, c, value)])
          [] mn = "AND" -> with_address_modify(m, mode, [value \in Byte |-> and_f(a, value)])
          [] mn = "ASL" -> with_address_modify(m, mode, [value \in Byte |-> asl_f(value)])
          [] mn = "BCC" -> branch(m, mode, "c", FALSE)
          [] mn = "BCS" -> branch(m, mode, "c", TRUE)
          [] mn = "BEQ" -> branch(m, mode, "z", TRUE)
          [] mn = "BIT" -> bit(m, mode)
          [] mn = "BMI" -> branch(m, mode, "n", TRUE)
          [] mn = "BNE" -> branch(m, mode, "z", FALSE)
          [] mn = "BPL" -> branch(m, mode, "n", FALSE)
          [] mn = "BRK" -> brk(m)
          [] mn = "BVC" -> branch(m, mode, "v", FALSE)
          [] mn = "BVS" -> branch(m, mode, "v", TRUE)
          [] mn = "CLC" -> set_flag(m, "c", FALSE)
          [] mn = "CLD" -> set_flag(m, "d", FALSE)
          [] mn = "CLI" -> set_flag(m, "i", FALSE)
          [] mn = "CLV" -> set_flag(m, "v", FALSE)
          [] mn = "CMP" -> compare(m, mode, "a")
          [] mn = "CPX" -> compare(m, mode, "x")
          [] mn = "CPY" -> compare(m, mode, "y")
          [] mn = "DEC" -> with_address_modify(m, mode, [value \in Byte |-> dec_f(value)])
          [] mn = "DEX" -> bump(m, "x", -1)
          [] mn = "DEY" -> bump(m, "y", -1)
          [] mn = "EOR" -> logic(m, mode, [value \in Byte, acc \in Byte |-> BitXor(value, acc)])
          [] mn = "INC" -> with_address_modify(m, mode, [value \in Byte |-> inc_f(value)])
          [] mn = "INX" -> bump(m, "x", 1)
          [] mn = "INY" -> bump(m, "y", 1)
          [] mn = "JMP" -> jmp(m, mode)
          [] mn = "JSR" -> jsr(m, mode)
          [] mn = "LDA" -> load(m, mode, "a")
          [] mn = "LDX" -> load(m, mode, "x")
          [] mn = "LDY" -> load(m, mode, "y")
          [] mn = "LSR" -> with_address_modify(m, mode, [value \in Byte |-> lsr_f(value)])
          [] mn = "NOP" -> [m |-> m, cycles |-> 0]
          [] mn = "ORA" -> logic(m, mode, [value \in Byte, acc \in Byte |-> BitOr(value, acc)])
          [] mn = "PHA" -> [m |-> push(m, a), cycles |-> 0]
          [] mn = "PHP" -> [m |-> php(m), cycles |-> 0]
          [] mn = "PLA" -> pla(m)
          [] mn = "PLP" -> plp(m)
          [] mn = "ROL" -> with_address_modify(m, mode, [value \in Byte |-> rol_f(value)])
          [] mn = "ROR" -> with_address_modify(m, mode, [value \in Byte |-> ror_f(value)])
          [] mn = "RTI" -> rti(m)
          [] mn = "RTS" -> rts(m)
          [] mn = "SBC" -> with_address_modify(m, mode, [value \in Byte |-> sbc_f(a, c, value)])
          [] mn = "SEC" -> set_flag(m, "c", TRUE)
          [] mn = "SED" -> set_flag(m, "d", TRUE)
          [] mn = "SEI" -> set_flag(m, "i", TRUE)
          [] mn = "STA" -> store(m, mode, "a")
          [] mn = "STX" -> store(m, mode, "x")
          [] mn = "STY" -> store(m, mode, "y")
          [] mn = "TAX" -> transfer(m, "a", "x")
          [] mn = "TAY" -> transfer(m, "a", "y")
          [] mn = "TSX" -> transfer(m, "sp", "x")
          [] mn = "TXA" -> transfer(m, "x", "a")
          [] mn = "TXS" -> transfer(m, "x", "sp")
          [] mn = "TYA" -> transfer(m, "y", "a")

\* Cpu::current_instruction
current_instruction(m) ==
    Bind(cpu_read(m, m.cpu.reg.pc), LAMBDA code :
    Bind(from_code(code.v), LAMBDA instruction :
        [m |-> IF instruction.ok THEN code.m ELSE Abort(code.m, "Unrecognised op code"),
         v |-> instruction]))

\* Cpu::next_instruction
next_instruction(m) ==
    Bind(next(m), LAMBDA opcode :
    Bind(from_code(opcode.v), LAMBDA instruction :
        [m |-> IF instruction.ok THEN opcode.m ELSE Abort(opcode.m, "Unrecognised op code"),
         instruction |-> instruction]))

\* Cpu::step: the machine after the step, the instruction and the cycles returned.
step(m) ==
    Bind(next_instruction(m), LAMBDA decoded :
    Bind(IF Panicked(decoded.m) THEN [m |-> decoded.m, cycles |-> 0]
         ELSE execute(decoded.m, decoded.instruction), LAMBDA arm :
        [m |-> arm.m, instruction |-> decoded.instruction,
         cycles |-> decoded.instruction.cycles + arm.cycles]))

-----------------------------------------------------------------------------
(* Scheduler (nes.rs)                                                      *)

\* Ppu::new and Ppu::step are not among the sources: the PPU is the count of
\* the ticks it was stepped.
new_ppu == [ticks |-> 0]
ppu_step(m) == Then(m, [m EXCEPT !.ppu.ticks = @ + 1])

\* `for _ in 0..cpu_cycles * 3 { self.ppu.step(..) }`: n calls of Ppu::step,
\* the first half of them before the second; a panic ends the loop.
RECURSIVE ppu_catch_up(_, _)
ppu_catch_up(m, n) ==
    IF Panicked(m) \/ n <= 0 THEN m
    ELSE IF n = 1 THEN ppu_step(m)
    ELSE ppu_catch_up(ppu_catch_up(m, n \div 2), n - (n \div 2))

DmaStall == 512

\* A scheduler that ticks the PPU once per CPU cycle.
nes_step_in_step(m) ==
    Bind(IF m.interconnect.dma
         THEN [m |-> [m EXCEPT !.interconnect.dma = FALSE], cycles |-> DmaStall]
         ELSE step(m), LAMBDA stepped :
        [m |-> ppu_catch_up(stepped.m, stepped.cycles), cycles |-> stepped.cycles])

\* Nes::step
nes_step(m) ==
    Bind(IF m.interconnect.dma
         THEN [m |-> [m EXCEPT !.interconnect.dma = FALSE], cycles |-> DmaStall]
         ELSE step(m), LAMBDA stepped :
        [m |-> ppu_catch_up(stepped.m, stepped.cycles * 3), cycles |-> stepped.cycles])

-----------------------------------------------------------------------------
(* The machine as state, and the operations applied to it.                 *)

\* The machine the operators thread, as the variables hold it.
Machine ==
    [cpu |-> cpu, interconnect |-> interconnect, ppu |-> ppu, panic |-> panic,
     overflow_checks |-> overflow_checks, log |-> <<>>, fetch |-> <<>>]

Commit(m) ==
    /\ cpu' = m.cpu
    /\ interconnect' = m.interconnect
    /\ ppu' = m.ppu
    /\ panic' = m.panic
    /\ overflow_checks' = overflow_checks

\* What is observed of one operation: its name, argument and return value,
\* the machine before it, the bus accesses and the fetches it made.
Observation(op, arg, ret, after) ==
    [op |-> op, arg |-> arg, ret |-> ret, pre |-> Machine,
     log |-> after.log, fetch |-> after.fetch]

NoObservation == [op |-> "none"]

\* obs holds the last operation and, where a property needs it, the one before.
Observed(o) == obs' = [last |-> o, prev |-> obs.last]
ObservedLast(o) == obs' = [last |-> o, prev |-> NoObservation]

\* The process has not aborted and the bound on operations is not reached.
Running(limit) == panic = NoPanic /\ ops < limit

\* A cartridge of the parser: one 16 KiB PRG bank, one CHR bank, mapper 0.
\* prg holds the ROM file's non-zero PRG bytes.
Cartridge(prg) ==
    [sram |-> Zeroed, prg |-> prg, chr |-> Zeroed,
     nprg |-> 1, nchr |-> 1, nram |-> 0, mapper |-> 0]

\* Nes::new on a build with or without overflow checks
nes_new(cartridge, checks) ==
    reset([cpu |-> new_cpu, interconnect |-> new_interconnect(cartridge),
           ppu |-> new_ppu, panic |-> NoPanic, overflow_checks |-> checks,
           log |-> <<>>, fetch |-> <<>>])

\* The machine as m holds it.
Installed(m) ==
    /\ cpu = m.cpu
    /\ interconnect = m.interconnect
    /\ ppu = m.ppu
    /\ panic = m.panic
    /\ overflow_checks = m.overflow_checks
    /\ ops = 0
    /\ obs = [last |-> NoObservation, prev |-> NoObservation]

\* PRG offsets of the reset vector (0xFFFC/0xFFFD) in a one-bank cartridge
ResetVectorHi == \h3FFD
\* A ROM whose reset vector is 0x8000 and whose PRG is otherwise zero.
BlankPrg == ResetVectorHi :> \h80

-----------------------------------------------------------------------------
(* Stack operations of the CPU, applied in any order.                      *)

MaxStackOps == 3
StackBytes == {\h00, \h34, \hFF}
StackWords == {\h0000, \h1234, \hFFFF}
StackX == {\h00, \h01, \hFD, \hFF}

InitStack ==
    \E x \in StackX, checks \in BOOLEAN :
        Installed([nes_new(Cartridge(BlankPrg), checks) EXCEPT !.cpu.reg.x = x])

Push(x) ==
    /\ Running(MaxStackOps)
    /\ LET m == push(Machine, x)
       IN  Commit(m) /\ Observed(Observation("push", x, 0, m))
    /\ ops' = ops + 1

Pop ==
    /\ Running(MaxStackOps)
    /\ LET r == pop(Machine)
       IN  Commit(r.m) /\ Observed(Observation("pop", 0, r.v, r.m))
    /\ ops' = ops + 1

PushU16(w) ==
    /\ Running(MaxStackOps)
    /\ LET m == push_u16(Machine, w)
       IN  Commit(m) /\ Observed(Observation("push_u16", w, 0, m))
    /\ ops' = ops + 1

PopU16 ==
    /\ Running(MaxStackOps)
    /\ LET r == pop_u16(Machine)
       IN  Commit(r.m) /\ Observed(Observation("pop_u16", 0, r.v, r.m))
    /\ ops' = ops + 1

Txs ==
    /\ Running(MaxStackOps)
    /\ LET r == transfer(Machine, "x", "sp")
       IN  Commit(r.m) /\ Observed(Observation("txs", 0, 0, r.m))
    /\ ops' = ops + 1

Reset ==
    /\ Running(MaxStackOps)
    /\ LET m == reset(Machine)
       IN  Commit(m) /\ Observed(Observation("reset", 0, 0, m))
    /\ ops' = ops + 1

NextStack ==
    \/ \E x \in StackBytes : Push(x)
    \/ Pop
    \/ \E w \in StackWords : PushU16(w)
    \/ PopU16
    \/ Txs
    \/ Reset

SpecStack == InitStack /\ [][NextStack]_vars

\* C1: pushing any word W with push_u16 and then immediately popping a word
\* with pop_u16 returns W and leaves SP as it was before the push.
C1_StackRoundTrip ==
    (obs.last.op = "pop_u16" /\ obs.prev.op = "push_u16" /\ panic = NoPanic)
        => /\ obs.last.ret = obs.prev.arg
           /\ cpu.reg.sp = obs.prev.pre.cpu.reg.sp

\* C2: a push writes its byte to 0x0100 | SP and then sets SP to (SP - 1) mod
\* 256; a pop first sets SP to (SP + 1) mod 256 and then reads 0x0100 | SP; SP
\* stays in 0..255 through pushes, pops, TXS and reset.
C2_StackProtocol ==
    LET sp0 == obs.last.pre.cpu.reg.sp
    IN  /\ cpu.reg.sp \in 0 .. 255
        /\ (obs.last.op = "push" /\ panic = NoPanic)
               => /\ obs.last.log = <<[k |-> "w", a |-> BitOr(\h0100, sp0), x |-> obs.last.arg]>>
                  /\ cpu.reg.sp = (sp0 - 1) % 256
        /\ (obs.last.op = "pop" /\ panic = NoPanic)
               => /\ obs.last.log =
                         <<[k |-> "r", a |-> BitOr(\h0100, (sp0 + 1) % 256), x |-> obs.last.ret]>>
                  /\ cpu.reg.sp = (sp0 + 1) % 256

-----------------------------------------------------------------------------
(* Bus accesses to RAM, the sprite DMA register and the cartridge.         *)

MaxBusOps == 2
BusBytes == {\h00, \h02, \h41}
RamOffsets == {\h0000, \h0001, \h0200, \h07FF}
\* Every mirror of the offsets
RamProbe == {o + k * \h0800 : o \in RamOffsets, k \in 0 .. 3}
BusAddrs ==
    {\h0000, \h0001, \h0200, \h07FF, \h0800, \h0A00, \h1001, \h1FFF,
     \h4014, \h4018, \h401F, \h6000, \h8000}

InitBus ==
    \E checks \in BOOLEAN : Installed(nes_new(Cartridge(BlankPrg), checks))

CpuRead(addr) ==
    /\ Running(MaxBusOps)
    /\ LET r == cpu_read(Machine, addr)
       IN  Commit(r.m) /\ Observed(Observation("cpu_read", [addr |-> addr], r.v, r.m))
    /\ ops' = ops + 1

CpuWrite(addr, x) ==
    /\ Running(MaxBusOps)
    /\ LET m == cpu_write(Machine, addr, x)
       IN  Commit(m) /\ Observed(Observation("cpu_write", [addr |-> addr, x |-> x], 0, m))
    /\ ops' = ops + 1

NextBus ==
    \/ \E addr \in BusAddrs : CpuRead(addr)
    \/ \E addr \in BusAddrs, x \in BusBytes : CpuWrite(addr, x)

SpecBus == InitBus /\ [][NextBus]_vars

IsBusOp(o) == o.op \in {"cpu_read", "cpu_write"}
InRam(addr) == addr \in 0 .. \h1FFF
Congruent(a, b) == a % \h0800 = b % \h0800
IsRamWrite(o) == o.op = "cpu_write" /\ InRam(o.arg.addr)
\* Every address of RAM congruent to the written one now reads the written byte.
ReadsBack(w) ==
    \A a \in RamProbe : Congruent(a, w.arg.addr) => cpu_read(Machine, a).v = w.arg.x

\* C3: after cpu_write(a, b) with a in 0x0000..0x1FFF, a cpu_read of any a' in
\* that range with a mod 0x0800 = a' mod 0x0800 returns b, until another write
\* to a congruent address.
C3_RamMirroring ==
    panic = NoPanic =>
        /\ IsRamWrite(obs.last) => ReadsBack(obs.last)
        /\ (/\ IsRamWrite(obs.prev)
            /\ IsBusOp(obs.last)
            /\ ~(IsRamWrite(obs.last) /\ Congruent(obs.last.arg.addr, obs.prev.arg.addr)))
               => ReadsBack(obs.prev)

\* A write through one mirror is read back through another, and survives a
\* write elsewhere.
C3_Witness ==
    /\ panic = NoPanic
    /\ IsRamWrite(obs.prev) /\ obs.prev.arg = [addr |-> \h0A00, x |-> \h41]
    /\ IsRamWrite(obs.last) /\ obs.last.arg.addr = \h1FFF
    /\ cpu_read(Machine, \h1200).v = \h41

\* C10: cpu_write(0x4014, B) leaves spr_ram[i] equal to the byte cpu_read
\* returned for (B << 8) + i, for every i in 0..255.
C10_SpriteDmaCopy ==
    (obs.last.op = "cpu_write" /\ obs.last.arg.addr = \h4014 /\ panic = NoPanic)
        => \A i \in 0 .. 255 :
               Get(interconnect.ppu_interface.spr_ram, i)
                   = cpu_read(obs.last.pre, obs.last.arg.x * 256 + i).v

-----------------------------------------------------------------------------
(* Bus accesses to the PPU register range 0x2000..0x3FFF.                  *)

MaxPpuOps == 3
PpuBytes == {\h04, \hFF}
\* The eight registers through three of their mirrors
PpuAddrs == {base + k : base \in {\h2000, \h2C68, \h3FF8}, k \in 0 .. 7}

InitPpuRegs ==
    \E checks \in BOOLEAN : Installed(nes_new(Cartridge(BlankPrg), checks))

RegisterRead(addr) ==
    /\ Running(MaxPpuOps)
    /\ LET r == cpu_read(Machine, addr)
       IN  Commit(r.m) /\ ObservedLast(Observation("cpu_read", [addr |-> addr], r.v, r.m))
    /\ ops' = ops + 1

RegisterWrite(addr, x) ==
    /\ Running(MaxPpuOps)
    /\ LET m == cpu_write(Machine, addr, x)
       IN  Commit(m) /\ ObservedLast(Observation("cpu_write", [addr |-> addr, x |-> x], 0, m))
    /\ ops' = ops + 1

NextPpuRegs ==
    \/ \E addr \in PpuAddrs : RegisterRead(addr)
    \/ \E addr \in PpuAddrs, x \in PpuBytes : RegisterWrite(addr, x)

SpecPpuRegs == InitPpuRegs /\ [][NextPpuRegs]_vars

InPpuRange(addr) == addr \in \h2000 .. \h3FFF
\* What the variables hold of a machine
Held(m) == <<m.cpu, m.interconnect, m.ppu, m.panic>>
\* The register a bus address in the PPU range stands for
Folded(addr) == \h2000 + (addr % 8)

\* C4: a cpu_read or cpu_write in 0x2000..0x3FFF has the effect and result of
\* the access to register 0x2000 + (addr mod 8), and leaves CPU RAM and the
\* cartridge alone.
C4_PpuRegisterFolding ==
    LET o == obs.last
    IN  /\ (o.op = "cpu_read" /\ InPpuRange(o.arg.addr))
               => LET r == cpu_read(o.pre, Folded(o.arg.addr))
                  IN  /\ Held(Machine) = Held(r.m)
                      /\ panic = NoPanic => o.ret = r.v
        /\ (o.op = "cpu_write" /\ InPpuRange(o.arg.addr))
               => Held(Machine) = Held(cpu_write(o.pre, Folded(o.arg.addr), o.arg.x))
        /\ (IsBusOp(o) /\ InPpuRange(o.arg.addr))
               => /\ interconnect.ram = o.pre.interconnect.ram
                  /\ interconnect.cartridge = o.pre.interconnect.cartridge

\* A byte written through one mirror of 0x2007 is read back through another
\* mirror, after the address was set through a third.
C4_Witness ==
    /\ panic = NoPanic
    /\ obs.last.op = "cpu_read" /\ obs.last.arg.addr = \h3FFF
    /\ obs.last.ret = \hFF
    /\ obs.last.pre.interconnect.ppu_interface.addr = \h04

-----------------------------------------------------------------------------
(* Flags::from_byte and Flags::as_byte over every byte.                    *)

InitFlags == Installed(nes_new(Cartridge(BlankPrg), TRUE))

\* self.flags = Flags::from_byte(b), as PLP and RTI do with the byte popped
FromByte(b) ==
    /\ panic = NoPanic /\ ops = 0
    /\ LET m == [Machine EXCEPT !.cpu.flags = from_byte(b)]
       IN  Commit(m) /\ Observed(Observation("from_byte", b, 0, m))
    /\ ops' = ops + 1

\* self.flags.as_byte(), as PHP does for the byte pushed
AsByte ==
    /\ panic = NoPanic
    /\ obs.last.op = "from_byte"
    /\ Commit(Machine)
    /\ Observed(Observation("as_byte", 0, as_byte(cpu.flags), Machine))
    /\ ops' = ops + 1

NextFlags ==
    \/ \E b \in Byte : FromByte(b)
    \/ AsByte

SpecFlags == InitFlags /\ [][NextFlags]_vars

\* C5: for every byte b, Flags::from_byte(b).as_byte() = b | 0x20.
C5_FlagByteRoundTrip ==
    (obs.last.op = "as_byte" /\ obs.prev.op = "from_byte")
        => obs.last.ret = BitOr(obs.prev.arg, \h20)

-----------------------------------------------------------------------------
(* Instruction::from_code over the 256 opcode bytes, in order.             *)

\* How many of the bytes decoded so far gave an instruction, how many the
\* panic of the catch-all arm.
Tally == IF obs.last.op = "from_code" THEN obs.last.ret.tally
         ELSE [decoded |-> 0, fatal |-> 0]

InitDecode == Installed(nes_new(Cartridge(BlankPrg), TRUE))

\* Instruction::from_code(ops)
FromCode ==
    /\ ops \in Byte
    /\ LET instruction == from_code(ops)
           tally == IF instruction.ok
                    THEN [Tally EXCEPT !.decoded = @ + 1]
                    ELSE [Tally EXCEPT !.fatal = @ + 1]
       IN  ObservedLast(Observation("from_code", ops,
                                    [instruction |-> instruction, tally |-> tally],
                                    Machine))
    /\ Commit(Machine)
    /\ ops' = ops + 1

NextDecode == FromCode

SpecDecode == InitDecode /\ [][NextDecode]_vars

Swept == obs.last.op = "from_code" /\ ops = Cardinality(Byte)

\* C7: Instruction::from_code gives an instruction for exactly 151 of the 256
\* opcode bytes and panics for each of the others.
C7_DecodableOpcodes ==
    obs.last.op = "from_code"
        => /\ Tally.decoded + Tally.fatal = ops
           /\ Tally.decoded <= 151
           /\ Swept => Tally.decoded = 151

C7_Witness == Swept /\ Tally.decoded = 151 /\ Tally.fatal = 105

\* C8: every instruction Instruction::from_code returns has a base cycle
\* count of at least 2.
C8_BaseCycles ==
    (obs.last.op = "from_code" /\ obs.last.ret.instruction.ok)
        => obs.last.ret.instruction.cycles >= 2

\* NOP, the cheapest instruction, is decoded with its two cycles.
C8_Witness ==
    /\ obs.last.op = "from_code"
    /\ obs.last.ret.instruction.ok
    /\ obs.last.ret.instruction.mnemonic = "NOP"
    /\ obs.last.ret.instruction.cycles = 2

-----------------------------------------------------------------------------
(* The console stepped from power-on: Nes::new on a ROM, then Nes::step.   *)

MaxSteps == 3
\* Bytes the ROM's first instruction is built from: its operand bytes are
\* also the opcode that follows a shorter instruction.
OperandBytes == {\h00, \h10, \hFF}

\* A ROM whose reset vector is 0x8000, holding there one instruction.
Program(opcode, b1, b2) ==
    LET image == (0 :> opcode) @@ (1 :> b1) @@ (2 :> b2) @@ BlankPrg
    IN  [k \in {j \in DOMAIN image : image[j] # 0} |-> image[k]]

Init ==
    \E opcode \in Byte, b1, b2 \in OperandBytes, checks \in BOOLEAN :
        Installed(nes_new(Cartridge(Program(opcode, b1, b2)), checks))

\* The cycles charged by the steps so far
Charged == IF obs.last.op = "nes_step" THEN obs.last.ret.charged ELSE 0

\* The machine a Nes::step leaves and the cycles it charged
Scheduled(r) ==
    /\ Commit(r.m)
    /\ ObservedLast(Observation("nes_step", 0,
           [cycles |-> r.cycles, charged |-> Charged + r.cycles], r.m))

\* Nes::step
NesStep ==
    /\ Running(MaxSteps)
    /\ Scheduled(nes_step(Machine))
    /\ ops' = ops + 1

Next == NesStep

Spec == Init /\ [][Next]_vars

\* Operand bytes of an addressing mode
OperandCount(address_mode) ==
    CASE address_mode \in {"Implied", "Accumulator"} -> 0
      [] address_mode \in {"Immediate", "ZeroPage", "ZeroPageXIndexed", "ZeroPageYIndexed",
                           "XIndexedIndirect", "IndirectYIndexed", "Relative"} -> 1
      [] address_mode \in {"Absolute", "AbsoluteXIndexed", "AbsoluteYIndexed", "Indirect"} -> 2

\* Mnemonics that assign PC
ControlFlow ==
    {"JMP", "JSR", "RTS", "RTI", "BRK",
     "BCC", "BCS", "BEQ", "BMI", "BNE", "BPL", "BVC", "BVS"}

\* A step of the CPU that read its opcode
CpuStepped ==
    /\ obs.last.op = "nes_step"
    /\ ~obs.last.pre.interconnect.dma
    /\ Len(obs.last.log) > 0

\* The instruction of the last step: the decoding of the first byte it read
Stepped == from_code(obs.last.log[1].x)

C9_SchedulerAccounting ==
    (obs.last.op = "nes_step" /\ panic = NoPanic)
        => /\ obs.last.ret.cycles > 0
           /\ ppu.ticks = obs.last.pre.ppu.ticks + 3 * obs.last.ret.cycles
           /\ ppu.ticks = 3 * Charged

\* Three steps were charged, the first a seven-cycle BRK.
C9_Witness ==
    /\ obs.last.op = "nes_step" /\ panic = NoPanic
    /\ ops = 3
    /\ Charged > 14
    /\ ppu.ticks = 3 * Charged


-----------------------------------------------------------------------------
(* ROM images holding a program.                                           *)

\* PRG offset of a bus address in a one-bank cartridge (Mapper0::map_prg)
PrgOffset(addr) == (addr - \h8000) % PrgBank

\* A ROM whose reset vector is origin, holding code from there on and the
\* bytes of data (a map from bus addresses) elsewhere.
Rom(origin, code, data) ==
    LET placed == {PrgOffset(origin + i - 1) : i \in 1 .. Len(code)}
        image == [k \in placed \cup {PrgOffset(a) : a \in DOMAIN data}
                          \cup {\h3FFC, \h3FFD} |->
                     IF k = \h3FFC THEN origin % 256
                     ELSE IF k = \h3FFD THEN origin \div 256
                     ELSE IF k \in placed
                     THEN code[CHOOSE i \in 1 .. Len(code) : PrgOffset(origin + i - 1) = k]
                     ELSE data[CHOOSE a \in DOMAIN data : PrgOffset(a) = k]]
    IN  [k \in {j \in DOMAIN image : image[j] # 0} |-> image[k]]

NoData == <<>>

-----------------------------------------------------------------------------
(* The sprite DMA flag between the bus and the scheduler.                  *)

DmaPrograms ==
    {<<\hA9, \h02, \h8D, \h14, \h40, \hEA>>,     \* LDA #$02; STA $4014; NOP
     <<\h8D, \h14, \h40, \hE8, \hE8>>,           \* STA $4014; INX; INX
     <<\hE8, \hEA, \hC8>>}                       \* INX; NOP; INY
DmaBytes == {\h00, \h02}

InitDma ==
    \E code \in DmaPrograms, checks \in BOOLEAN :
        Installed(nes_new(Cartridge(Rom(\h8000, code, NoData)), checks))

\* cpu_write(0x4014, x) through Nes::interconnect()
DmaWrite(x) ==
    /\ Running(MaxSteps)
    /\ ObservedLast(Observation("cpu_write", [addr |-> \h4014, x |-> x], 0,
                                cpu_write(Machine, \h4014, x)))
    /\ Commit(cpu_write(Machine, \h4014, x))
    /\ ops' = ops + 1

\* set_dma(value) through Nes::interconnect()
SetDma(value) ==
    /\ Running(MaxSteps)
    /\ ObservedLast(Observation("set_dma", value, 0, set_dma(Machine, value)))
    /\ Commit(set_dma(Machine, value))
    /\ ops' = ops + 1

NextDma ==
    \/ NesStep
    \/ \E x \in DmaBytes : DmaWrite(x)
    \/ \E value \in BOOLEAN : SetDma(value)

SpecDma == InitDma /\ [][NextDma]_vars

\* The operation wrote the sprite DMA register
WroteDmaRegister(o) ==
    \E i \in 1 .. Len(o.log) : o.log[i].k = "w" /\ o.log[i].a = \h4014

\* C11: dma() is false after Nes::new; it is true after a cpu_write to 0x4014,
\* whether made directly or by the instruction of a step; it is false after a
\* step that made no such write.
C11_DmaPendingFlag ==
    LET o == obs.last
    IN  /\ o.op = "none" => ~dma(Machine)
        /\ (o.op = "cpu_write" /\ panic = NoPanic) => dma(Machine)
        /\ (o.op = "nes_step" /\ panic = NoPanic) => (dma(Machine) <=> WroteDmaRegister(o))

\* C12: a step taken while dma() is true executes the instruction at PC and
\* its cycle count is 513 or 514 more than that instruction's cycles.
C12_DmaStall ==
    LET o == obs.last
    IN  (o.op = "nes_step" /\ dma(o.pre) /\ panic = NoPanic) =>
            /\ Len(o.fetch) > 0
            /\ o.ret.cycles - step(set_dma(o.pre, FALSE)).cycles \in {513, 514}

-----------------------------------------------------------------------------
(* Reset at any point of a program.                                        *)

ResetVectors == {\h8000, \h80FE, \hC234, \hFFF0}
ResetPrograms ==
    {<<\hA9, \h80, \hAA, \hA8>>,       \* LDA #$80; TAX; TAY
     <<\hA2, \h7F, \h9A, \h38>>,       \* LDX #$7F; TXS; SEC
     <<\hA0, \h00, \hF8, \h48>>,       \* LDY #$00; SED; PHA
     <<\h4C, \h34, \h12>>}             \* JMP $1234

InitReset ==
    \E origin \in ResetVectors, code \in ResetPrograms, checks \in BOOLEAN :
        Installed(nes_new(Cartridge(Rom(origin, code, NoData)), checks))

NextReset ==
    \/ NesStep
    \/ Reset

SpecReset == InitReset /\ [][NextReset]_vars

\* The little-endian word of the bytes the bus holds at 0xFFFC and 0xFFFD
ResetVector(m) == cpu_read(m, \hFFFC).v + 256 * cpu_read(m, \hFFFD).v

ResetFlags ==
    [n |-> FALSE, v |-> FALSE, b |-> FALSE, d |-> FALSE,
     i |-> TRUE, z |-> FALSE, c |-> FALSE]

\* C13: after Cpu::reset, alone or in Nes::new, PC is the little-endian word
\* at 0xFFFC/0xFFFD, SP is 0xFD, I is set and N, V, B, D, Z, C are clear; a
\* reset leaves A, X and Y as they were.
C13_Reset ==
    LET o == obs.last
    IN  /\ (o.op \in {"none", "reset"} /\ panic = NoPanic)
               => /\ cpu.reg.pc = ResetVector(Machine)
                  /\ cpu.reg.sp = \hFD
                  /\ cpu.flags = ResetFlags
        /\ (o.op = "reset" /\ panic = NoPanic)
               => /\ cpu.reg.a = o.pre.cpu.reg.a
                  /\ cpu.reg.x = o.pre.cpu.reg.x
                  /\ cpu.reg.y = o.pre.cpu.reg.y
                  /\ [i \in 1 .. Len(o.log) |-> o.log[i].a] = <<\hFFFC, \hFFFD>>

\* A reset after LDX #$7F; TXS, from a ROM whose vector is 0xC234.
C13_Witness ==
    /\ obs.last.op = "reset" /\ panic = NoPanic
    /\ obs.last.pre.cpu.reg.sp = \h7F /\ ~obs.last.pre.cpu.flags.i
    /\ obs.last.pre.cpu.reg.pc = \hC237
    /\ cpu.reg.pc = \hC234 /\ cpu.reg.x = \h7F

-----------------------------------------------------------------------------
(* Short programs run from the reset vector.                               *)

\* LDA #v
LoadPrograms == {[origin |-> \h8000, code |-> <<\hA9, v>>, data |-> NoData] : v \in Byte}

\* LDA #a; SEC or CLC; ADC #m
AdcPrograms ==
    {[origin |-> \h8000, code |-> <<\hA9, a, carry, \h69, m>>, data |-> NoData] :
         a \in {\h00, \h50, \hFF}, carry \in {\h18, \h38}, m \in {\h00, \h01, \h50, \hFF}}

\* LDX #x; LDA base,X
IndexedPrograms ==
    {[origin |-> \h8000, code |-> <<\hA2, x, \hBD, base % 256, base \div 256>>,
      data |-> (\h8100 :> \hAA) @@ (\h8011 :> \h55)] :
         x \in {\h00, \h01, \hFF}, base \in {\h1F01, \h0001, \h8001, \h8010, \h8100}}

\* SEC or CLC or NOP; BCC offset
BranchPrograms ==
    {[origin |-> origin, code |-> <<carry, \h90, offset>>, data |-> NoData] :
         origin \in {\h8000, \h80FD, \h80FC}, carry \in {\h18, \h38, \hEA},
         offset \in {\h00, \h04, \h7F, \hFA}}
    \cup {[origin |-> \h80FE, code |-> <<\h90, \h04>>, data |-> NoData]}

\* JMP (pointer)
JumpPrograms ==
    {[origin |-> \h8000, code |-> <<\h6C, pointer % 256, pointer \div 256>>,
      data |-> (\h80FF :> \h40) @@ (\h8100 :> \h90) @@ (\h8110 :> \h34) @@ (\h8111 :> \h12)] :
         pointer \in {\h80FF, \h8110, \h00FF, \h8000}}

\* LDX #x; STA base,X or INC base,X
StorePrograms ==
    {[origin |-> \h8000, code |-> <<\hA2, x, opcode, base % 256, base \div 256>>,
      data |-> NoData] :
         x \in {\h00, \h01, \hFF}, opcode \in {\h9D, \hFE}, base \in {\h0001, \h0010, \h0700}}

\* SEC or SED or NOP; PHP or BRK
StatusPrograms ==
    {[origin |-> origin, code |-> <<set, opcode, \hEA>>,
      data |-> (\hFFFE :> \h34) @@ (\hFFFF :> \h92)] :
         origin \in {\h8000, \h80FE}, set \in {\h38, \hF8, \hEA}, opcode \in {\h08, \h00}}

\* LDA #v; STA $FD; PLP or RTI: the byte at the stack pointer is v
PullPrograms ==
    {[origin |-> \h8000, code |-> <<\hA9, v, \h85, \hFD, opcode>>, data |-> NoData] :
         v \in {\h00, \h10, \h20, \h30, \hC3, \hFF}, opcode \in {\h28, \h40}}

\* LDA #r; CMP #m, LDX #r; CPX #m, LDY #r; CPY #m, and SED; CMP #m
ComparePrograms ==
    {[origin |-> \h8000, code |-> <<pair[1], r, pair[2], m>>, data |-> NoData] :
         pair \in {<<\hA9, \hC9>>, <<\hA2, \hE0>>, <<\hA0, \hC0>>},
         r \in {\h00, \h01, \h7F, \h80, \hFF}, m \in {\h00, \h01, \h7F, \h80, \hFF}}
    \cup {[origin |-> \h8000, code |-> <<\hF8, \hC9, m>>, data |-> NoData] : m \in {\h00, \h01}}

\* LDA #a; BIT $8100, with m at 0x8100
BitPrograms ==
    {[origin |-> \h8000, code |-> <<\hA9, a, \h2C, \h00, \h81>>, data |-> (\h8100 :> m)] :
         a \in {\h00, \h01, \hC0, \hFF}, m \in {\h01, \h40, \h80, \hC0, \hFF}}

\* LDA #v; ASL, LSR, ROL or ROR of A, and LDA #v; STA $10; the same of $10
ShiftPrograms ==
    {[origin |-> \h8000, code |-> <<\hA9, v, opcode>>, data |-> NoData] :
         v \in {\h00, \h01, \h80, \h81, \hFF}, opcode \in {\h0A, \h4A, \h2A, \h6A}}
    \cup {[origin |-> \h8000, code |-> <<\hA9, v, \h85, \h10, opcode, \h10>>, data |-> NoData] :
              v \in {\h00, \h01, \h80, \h81, \hFF}, opcode \in {\h06, \h46, \h26, \h66}}

\* LDA #a; AND #m or SBC #m, and LDA #a; AND $0010 or AND $8100, with m at 0x8100
AndPrograms ==
    {[origin |-> \h8000, code |-> <<\hA9, a, opcode, m>>, data |-> NoData] :
         a \in {\h00, \h0F, \hFF}, opcode \in {\h29, \hE9}, m \in {\h00, \h3C, \hFF}}
    \cup {[origin |-> \h8000, code |-> <<\hA9, a, \h2D, \h00, hi>>, data |-> (\h8100 :> m)] :
              a \in {\h00, \h0F, \hFF}, hi \in {\h00, \h81}, m \in {\h3C, \hFF}}

\* JSR target, with RTS at the target
CallPrograms ==
    {[origin |-> origin, code |-> <<\h20, target % 256, target \div 256>>,
      data |-> (target :> \h60)] :
         origin \in {\h8000, \h80FD}, target \in {\h8010, \h9000}}

Programs ==
    LoadPrograms \cup AdcPrograms \cup IndexedPrograms \cup BranchPrograms \cup JumpPrograms
        \cup StorePrograms \cup StatusPrograms \cup PullPrograms \cup ComparePrograms
        \cup BitPrograms \cup ShiftPrograms \cup AndPrograms \cup CallPrograms

InitPrograms ==
    \E p \in Programs, checks \in BOOLEAN :
        Installed(nes_new(Cartridge(Rom(p.origin, p.code, p.data)), checks))

SpecPrograms == InitPrograms /\ [][Next]_vars

\* The last step executed the instruction with this opcode
Executed(opcode) == CpuStepped /\ obs.last.log[1].x = opcode

\* The byte the bus holds at addr before the last operation
Before(addr) == cpu_read(obs.last.pre, addr).v

\* The operand bytes of the instruction of the last step
Operand == Before((obs.last.pre.cpu.reg.pc + 1) % 65536)
OperandWord == Operand + 256 * Before((obs.last.pre.cpu.reg.pc + 2) % 65536)

\* C14: a step of LDA #v (A9 v) completes with A = v, Z = (v = 0), N = bit 7
\* of v, PC advanced by 2, and returns 2 cycles.
C14_LdaImmediate ==
    Executed(\hA9) =>
        /\ panic = NoPanic
        /\ cpu.reg.a = Operand
        /\ cpu.flags.z = (Operand = 0)
        /\ cpu.flags.n = (Operand >= 128)
        /\ cpu.reg.pc = obs.last.pre.cpu.reg.pc + 2
        /\ obs.last.ret.cycles = 2

\* LDA #$00 from 0x8000
C14_Witness ==
    /\ Executed(\hA9) /\ Operand = 0
    /\ cpu.reg.a = 0 /\ cpu.flags.z /\ ~cpu.flags.n
    /\ cpu.reg.pc = \h8002 /\ obs.last.ret.cycles = 2

\* C15: a step of ADC #M (69 M) completes with A = (A + M + C) mod 256,
\* C = (A + M + C > 0xFF), V = ((A ^ result) & (M ^ result) & 0x80) # 0,
\* N = bit 7 of the result, Z = (result = 0), and returns 2 cycles.
C15_AdcImmediate ==
    Executed(\h69) =>
        LET pre == obs.last.pre.cpu
            sum == pre.reg.a + Operand + BoolU8(pre.flags.c)
            result == sum % 256
        IN  /\ panic = NoPanic
            /\ cpu.reg.a = result
            /\ cpu.flags.c = (sum > 255)
            /\ cpu.flags.v =
                   (BitAnd(BitAnd(BitXor(pre.reg.a, result), BitXor(Operand, result)), \h80) # 0)
            /\ cpu.flags.n = (result >= 128)
            /\ cpu.flags.z = (result = 0)
            /\ obs.last.ret.cycles = 2

\* The bus address LDA base,X reads: base + X in 16 bits
Effective == (OperandWord + obs.last.pre.cpu.reg.x) % 65536

\* C16: a step of LDA base,X (BD lo hi) completes with A = the byte at
\* base + X and returns 4 cycles when base and base + X share a high byte and
\* 5 when they do not; so it does for base 0x1F01 and X = 0xFF.
C16_LdaAbsoluteXPageCross ==
    Executed(\hBD) =>
        /\ panic = NoPanic
        /\ cpu.reg.a = Before(Effective)
        /\ obs.last.ret.cycles =
               IF OperandWord \div 256 = Effective \div 256 THEN 4 ELSE 5

\* C17: a step of BCC +4 (90 04) at PC = 0x80FE with C clear leaves
\* PC = 0x8104 and returns 4 cycles.
C17_BranchAcrossPage ==
    (/\ Executed(\h90) /\ Operand = \h04
     /\ obs.last.pre.cpu.reg.pc = \h80FE /\ ~obs.last.pre.cpu.flags.c)
        => /\ panic = NoPanic
           /\ cpu.reg.pc = \h8104
           /\ obs.last.ret.cycles = 4

\* C18: a step of JMP (P) (6C lo hi) leaves PC with its low byte from P and
\* its high byte from (P & 0xFF00) | ((P + 1) & 0x00FF), and returns 5 cycles.
C18_IndirectJmpPageWrap ==
    Executed(\h6C) =>
        LET P == OperandWord
            wrapped == BitOr(BitAnd(P, \hFF00), BitAnd(P + 1, \h00FF))
        IN  /\ panic = NoPanic
            /\ cpu.reg.pc = Before(P) + 256 * Before(wrapped)
            /\ obs.last.ret.cycles = 5

-----------------------------------------------------------------------------
(* The peek helpers of Nes, called with PC anywhere on the bus.            *)

MaxPeekOps == 3
PeekVectors == {\h8000, \h0000, \h2002, \h2005, \h2007, \h3FFA, \h3FFF}
PeekSkips == {0, 2, 5}

InitPeek ==
    \E origin \in PeekVectors, checks \in BOOLEAN :
        Installed(nes_new(Cartridge(Rom(origin, <<\hA9, \h10, \h8D>>, NoData)), checks))

\* The machine a helper leaves and the value it returned
Peeked(name, arg, r) ==
    /\ Commit(r.m)
    /\ ObservedLast(Observation(name, arg, r.v, r.m))

\* Nes::peek
Peek ==
    /\ Running(MaxPeekOps)
    /\ Peeked("peek", 0, peek(Machine))
    /\ ops' = ops + 1

\* Nes::peek_u16
PeekU16 ==
    /\ Running(MaxPeekOps)
    /\ Peeked("peek_u16", 0, peek_u16(Machine))
    /\ ops' = ops + 1

\* Nes::skip_peek
SkipPeek(skip) ==
    /\ Running(MaxPeekOps)
    /\ Peeked("skip_peek", skip, skip_peek(Machine, skip))
    /\ ops' = ops + 1

\* Nes::skip_peek_u16
SkipPeekU16(skip) ==
    /\ Running(MaxPeekOps)
    /\ Peeked("skip_peek_u16", skip, skip_peek_u16(Machine, skip))
    /\ ops' = ops + 1

\* Nes::current_instruction
CurrentInstruction ==
    /\ Running(MaxPeekOps)
    /\ Peeked("current_instruction", 0, current_instruction(Machine))
    /\ ops' = ops + 1

NextPeek ==
    \/ Peek
    \/ PeekU16
    \/ \E skip \in PeekSkips : SkipPeek(skip)
    \/ \E skip \in PeekSkips : SkipPeekU16(skip)
    \/ CurrentInstruction

SpecPeek == InitPeek /\ [][NextPeek]_vars

PeekHelpers == {"peek", "peek_u16", "skip_peek", "skip_peek_u16", "current_instruction"}

\* C19: a peek helper that returns leaves the Interconnect and the PPU as they
\* were: a peek of the status register leaves vblank, a peek of the data
\* register leaves the PPU address.
C19_SideEffectFreePeek ==
    (obs.last.op \in PeekHelpers /\ panic = NoPanic)
        => /\ interconnect = obs.last.pre.interconnect
           /\ ppu = obs.last.pre.ppu

-----------------------------------------------------------------------------
(* The iNES parser (rom/rom.rs) over well-formed and malformed files.      *)

\* A file is the bytes of its first 16 positions (fewer when it is shorter)
\* and the number of bytes that follow them.
HeaderLen == 16
TrainerLen == 512
Magic == <<\h4E, \h45, \h53, \h1A>>

Done(value, rest) == [status |-> "Done", value |-> value, rest |-> rest]
ParseError == [status |-> "Error"]
Incomplete == [status |-> "Incomplete"]
Unwound(message) == [status |-> "Panic", message |-> message]

\* tag!("NES") ~ tag!(&[0x1a]): the bytes present must match; a file that ends
\* inside the tag is incomplete.
parse_magic(file) ==
    LET present == IF Len(file.header) < Len(Magic) THEN Len(file.header) ELSE Len(Magic)
    IN  IF \E i \in 1 .. present : file.header[i] # Magic[i] THEN ParseError
        ELSE IF present < Len(Magic) THEN Incomplete
        ELSE Done(Magic, Len(file.header) - Len(Magic) + file.body)

\* parse_header: the magic, five bytes of fields and seven bytes of padding
parse_header(file) ==
    IF parse_magic(file).status # "Done" THEN parse_magic(file)
    ELSE IF Len(file.header) < HeaderLen THEN Incomplete
    ELSE Done([nprg |-> file.header[5], nchr |-> file.header[6],
               control1 |-> file.header[7], control2 |-> file.header[8],
               nram |-> file.header[9]],
              file.body)

\* ((control1 & 0xf0) >> 4) | (control2 & 0xf0)
mapper_number(header) ==
    BitOr(BitAnd(header.control1, \hF0) \div 16, BitAnd(header.control2, \hF0))

\* INesHeader::mapper: the mapper, or the panic of the catch-all arm
header_mapper(header) ==
    IF mapper_number(header) \in {0, 1}
    THEN [ok |-> TRUE, mapper |-> mapper_number(header)]
    ELSE [ok |-> FALSE, mapper |-> mapper_number(header)]

\* INesHeader::has_trainer
has_trainer(header) == BitAnd(header.control1, 2) # 0

\* take!(n) and count!(le_u8, n): n bytes of the rest, or incomplete
take(rest, n) == IF rest < n THEN Incomplete ELSE Done(n, rest - n)

\* The chain! of parse_cartridge: header, trainer, PRG, CHR, then the closure
\* that builds the Cartridge and calls header.mapper().
parse_chain(file) ==
    Bind(parse_header(file), LAMBDA header :
        IF header.status # "Done" THEN header
        ELSE Bind(IF has_trainer(header.value) THEN take(header.rest, TrainerLen)
                  ELSE Done(0, header.rest), LAMBDA trainer :
        IF trainer.status # "Done" THEN trainer
        ELSE Bind(take(trainer.rest, PrgBank * header.value.nprg), LAMBDA prg :
        IF prg.status # "Done" THEN prg
        ELSE Bind(take(prg.rest, ChrBank * header.value.nchr), LAMBDA chr :
        IF chr.status # "Done" THEN chr
        ELSE IF ~header_mapper(header.value).ok THEN Unwound("Unrecognised mapper")
        ELSE Done([nprg |-> header.value.nprg, nchr |-> header.value.nchr,
                   nram |-> header.value.nram,
                   mapper |-> header_mapper(header.value).mapper,
                   prg_at |-> HeaderLen + trainer.value],
                  chr.rest)))))

\* complete!: an incomplete parse is an error
parse_cartridge(file) ==
    IF parse_chain(file).status = "Incomplete" THEN ParseError ELSE parse_chain(file)

\* Cartridge::new
cartridge_new(file) ==
    CASE parse_cartridge(file).status = "Done" ->
           [result |-> "Ok", cartridge |-> parse_cartridge(file).value, panic |-> NoPanic]
      [] parse_cartridge(file).status = "Error" ->
           [result |-> "Err(Parse)", cartridge |-> None, panic |-> NoPanic]
      [] parse_cartridge(file).status = "Panic" ->
           [result |-> "none", cartridge |-> None, panic |-> parse_cartridge(file).message]
      [] OTHER -> [result |-> "none", cartridge |-> None, panic |-> "unreachable"]

RomMagics == {Magic, <<\h4E, \h45, \h53, \h00>>, <<\h4D, \h45, \h53, \h1A>>}
RomBanks == {0, 1, 2}
RomControl1 == {\h00, \h02, \h04, \h10, \h20, \hF0}
RomControl2 == {\h00, \h10}
RomHeaderLens == {2, 4, 9, HeaderLen}
\* Bytes missing from (negative) or following (positive) the banks
RomSlack == {-16384, -1, 0, 1, 512}

RomFiles ==
    {[header |-> SubSeq(magic \o <<nprg, nchr, c1, c2, 0, 0, 0, 0, 0, 0, 0, 0>>, 1, len),
      body |-> IF len < HeaderLen \/ PrgBank * nprg + ChrBank * nchr + slack < 0 THEN 0
               ELSE PrgBank * nprg + ChrBank * nchr + slack] :
         magic \in RomMagics, nprg \in RomBanks, nchr \in {0, 1}, c1 \in RomControl1,
         c2 \in RomControl2, len \in RomHeaderLens, slack \in RomSlack}

InitRom == Installed(nes_new(Cartridge(BlankPrg), TRUE))

\* Cartridge::new(data)
CartridgeNew(file) ==
    /\ panic = NoPanic /\ ops = 0
    /\ ObservedLast([op |-> "cartridge_new", arg |-> file, ret |-> cartridge_new(file).result,
                      cartridge |-> cartridge_new(file).cartridge])
    /\ panic' = cartridge_new(file).panic
    /\ UNCHANGED <<cpu, interconnect, ppu, overflow_checks>>
    /\ ops' = ops + 1

NextRom == \E file \in RomFiles : CartridgeNew(file)

SpecRom == InitRom /\ [][NextRom]_vars

\* What is wrong with a file
BadMagic(file) == Len(file.header) < Len(Magic) \/ SubSeq(file.header, 1, Len(Magic)) # Magic
HeaderField(file, i) == IF Len(file.header) >= i THEN file.header[i] ELSE 0
Truncated(file) ==
    \/ Len(file.header) < HeaderLen
    \/ file.body < PrgBank * HeaderField(file, 5) + ChrBank * HeaderField(file, 6)
UnsupportedMapper(file) ==
    BitOr(BitAnd(HeaderField(file, 7), \hF0) \div 16, BitAnd(HeaderField(file, 8), \hF0))
        \notin {0, 1}

\* C20: Cartridge::new returns Err(Parse), without a panic, for every file
\* whose first four bytes are not 'N','E','S',0x1A, whose PRG or CHR data is
\* shorter than nprg * 16384 + nchr * 8192 bytes, or whose mapper number is
\* not a supported one.
C20_MalformedRomRejected ==
    (/\ obs.last.op = "cartridge_new"
     /\ \/ BadMagic(obs.last.arg)
        \/ Truncated(obs.last.arg)
        \/ UnsupportedMapper(obs.last.arg))
        => panic = NoPanic /\ obs.last.ret = "Err(Parse)"

\* C21: in a file that parses, the PRG data begins 512 bytes after the 16-byte
\* header exactly when bit 2 (mask 0x04) of control1 is set, and at byte
\* offset 16 otherwise; no other bit of control1 moves it.
C21_TrainerSkipping ==
    (obs.last.op = "cartridge_new" /\ obs.last.ret = "Ok")
        => obs.last.cartridge.prg_at =
               IF BitAnd(obs.last.arg.header[7], \h04) # 0
               THEN HeaderLen + TrainerLen ELSE HeaderLen

-----------------------------------------------------------------------------
(* The cartridge seen from the CPU bus.                                    *)

\* C22: no sequence of cpu_write operations changes a byte of the PRG array,
\* and a cpu_read of an address in 0x8000..0xFFFF returns the byte loaded
\* from the ROM file.
C22_PrgImmutable ==
    /\ interconnect.cartridge.prg = BlankPrg
    /\ (obs.last.op = "cpu_read" /\ obs.last.arg.addr \in \h8000 .. \hFFFF /\ panic = NoPanic)
           => obs.last.ret = Get(BlankPrg, (obs.last.arg.addr - \h8000) % PrgBank)

-----------------------------------------------------------------------------
(* Steps that end in a fatal error.                                        *)

\* The fatal decode and bus errors of a step
DecodeOrBusError ==
    {"Unrecognised op code", "read of write-only PPU register",
     "read of write-only PPU DMA register", "write to read-only PPU status register",
     "invalid PPU register read address", "invalid PPU register write address",
     "I/O reads not implemented", "I/O writes not implemented",
     "Expansion ROM reads not implemented", "Expansion ROM writes not implemented"}

\* C23: when a step ends in a fatal decode or bus error, the CPU registers and
\* flags, the RAM, the cartridge and the PPU at the point of failure equal
\* their values before the step began.
C23_NoPartialCommit ==
    (obs.last.op = "nes_step" /\ panic \in DecodeOrBusError)
        => /\ cpu = obs.last.pre.cpu
           /\ interconnect = obs.last.pre.interconnect
           /\ ppu = obs.last.pre.ppu

-----------------------------------------------------------------------------
(* The debugger: its commands (debug/command.rs) and its loop              *)
(* (debug/mod.rs). A line is the sequence of its characters. The nom       *)
(* parsers tag!, space, digit and eof and the combinators alt_complete!,   *)
(* opt!, preceded! and map_res! are modelled by their documented           *)
(* behaviour on a complete line.                                           *)

\* enum Command
Exit == [name |-> "Exit"]
Step(count) == [name |-> "Step", count |-> count]
Repeat == [name |-> "Repeat"]

Ok(value) == [ok |-> TRUE, value |-> value]
Err(error) == [ok |-> FALSE, error |-> error]
Some(value) == <<value>>

Blank == {" ", "\t"}
Digits == ("0" :> 0) @@ ("1" :> 1) @@ ("2" :> 2) @@ ("3" :> 3) @@ ("4" :> 4)
          @@ ("5" :> 5) @@ ("6" :> 6) @@ ("7" :> 7) @@ ("8" :> 8) @@ ("9" :> 9)

\* tag!(word): the characters present must match; a line that ends inside the
\* word is incomplete.
tag(input, word) ==
    LET present == IF Len(input) < Len(word) THEN Len(input) ELSE Len(word)
    IN  IF SubSeq(input, 1, present) # SubSeq(word, 1, present) THEN ParseError
        ELSE IF present < Len(word) THEN Incomplete
        ELSE Done(word, SubSeq(input, Len(word) + 1, Len(input)))

\* alt_complete!: the first alternative that is Done; an incomplete
\* alternative counts as failed.
alt_complete(results) ==
    IF \E i \in DOMAIN results : results[i].status = "Done"
    THEN results[CHOOSE i \in DOMAIN results :
                     /\ results[i].status = "Done"
                     /\ \A j \in 1 .. i - 1 : results[j].status # "Done"]
    ELSE ParseError

\* The length of the longest prefix of input made of characters of class
Span(input, class) ==
    CHOOSE n \in 0 .. Len(input) :
        /\ \A i \in 1 .. n : input[i] \in class
        /\ n = Len(input) \/ input[n + 1] \notin class

\* space, digit: the longest prefix of the class; an error when the first
\* character is not of the class; the whole input when it ends first.
many(input, class) ==
    IF Len(input) > 0 /\ input[1] \notin class THEN ParseError
    ELSE Done(SubSeq(input, 1, Span(input, class)),
              SubSeq(input, Span(input, class) + 1, Len(input)))

\* opt!
opt(result, input) ==
    CASE result.status = "Done" -> Done(Some(result.value), result.rest)
      [] result.status = "Error" -> Done(None, input)
      [] OTHER -> result

\* usize::from_str on digits
RECURSIVE Decimal(_)
Decimal(digits) ==
    IF digits = <<>> THEN 0
    ELSE 10 * Decimal(SubSeq(digits, 1, Len(digits) - 1)) + Digits[digits[Len(digits)]]

\* usize_parser: from_str fails on no digits
usize_parser(input) ==
    Bind(many(input, DOMAIN Digits), LAMBDA digit :
        IF digit.status # "Done" THEN digit
        ELSE IF digit.value = <<>> THEN ParseError
        ELSE Done(Decimal(digit.value), digit.rest))

\* preceded!(space, usize_parser)
preceded_count(input) ==
    Bind(many(input, Blank), LAMBDA space :
        IF space.status # "Done" THEN space ELSE usize_parser(space.rest))

\* step: "step" or "s", then an optional count
command_step(input) ==
    Bind(alt_complete(<<tag(input, <<"s", "t", "e", "p">>), tag(input, <<"s">>)>>),
         LAMBDA word :
        IF word.status # "Done" THEN word
        ELSE Bind(opt(preceded_count(word.rest), word.rest), LAMBDA count :
                 IF count.status # "Done" THEN count
                 ELSE Done(Step(IF count.value = None THEN 1 ELSE count.value[1]),
                           count.rest)))

\* exit
command_exit(input) ==
    Bind(alt_complete(<<tag(input, <<"e", "x", "i", "t">>), tag(input, <<"q", "u", "i", "t">>),
                        tag(input, <<"e">>), tag(input, <<"q">>)>>), LAMBDA word :
        IF word.status # "Done" THEN word ELSE Done(Exit, word.rest))

\* repeat: value!(Command::Repeat) consumes nothing
command_repeat(input) == Done(Repeat, input)

\* command: one of the three, then the end of the line
command(input) ==
    Bind(alt_complete(<<command_step(input), command_exit(input), command_repeat(input)>>),
         LAMBDA c :
        IF c.status # "Done" THEN c
        ELSE IF c.rest # <<>> THEN ParseError
        ELSE Done(c.value, <<>>))

\* Command::from_str
from_str(s) ==
    IF command(s).status = "Done" THEN Ok(command(s).value) ELSE Err("Unrecognised command")

Whitespace == Blank \cup {"\n", "\r"}

\* str::trim in read_stdin
trim(line) ==
    LET inked == {i \in 1 .. Len(line) : line[i] \notin Whitespace}
    IN  IF inked = {} THEN <<>>
        ELSE SubSeq(line, CHOOSE i \in inked : \A j \in inked : i <= j,
                          CHOOSE i \in inked : \A j \in inked : j <= i)

\* Debugger::print_instruction: decodes the byte at PC and peeks its operand
print_instruction(m) ==
    Bind(current_instruction(m), LAMBDA instruction :
        IF Panicked(instruction.m) THEN instruction.m
        ELSE IF instruction.v.address_mode \in {"Accumulator", "Implied"} THEN instruction.m
        ELSE IF instruction.v.address_mode \in
                    {"Absolute", "AbsoluteXIndexed", "AbsoluteYIndexed", "Indirect"}
        THEN skip_peek_u16(instruction.m, 1).m
        ELSE skip_peek(instruction.m, 1).m)

\* Debugger::step
debugger_step(m) == IF Panicked(m) THEN m ELSE print_instruction(nes_step(m).m)

\* Debugger::step_by
RECURSIVE step_by(_, _)
step_by(m, count) ==
    IF Panicked(m) \/ count <= 0 THEN m ELSE step_by(debugger_step(m), count - 1)

\* The command an empty line stands for, which is not the last command.
resolve_to_default(parsed, last_command) ==
    IF parsed.ok /\ parsed.value = Repeat
    THEN IF last_command # None THEN Ok(Step(1)) ELSE Err("No last command to repeat")
    ELSE parsed

\* The match on (read_stdin().parse(), self.last_command) in Debugger::run
resolve(parsed, last_command) ==
    IF parsed.ok /\ parsed.value = Repeat
    THEN IF last_command # None THEN Ok(last_command[1]) ELSE Err("No last command to repeat")
    ELSE parsed

\* The match on command in Debugger::run
dispatch(m, resolved) ==
    IF ~resolved.ok \/ resolved.value = Exit THEN m
    ELSE IF resolved.value = Repeat THEN Abort(m, "unreachable")
    ELSE step_by(m, resolved.value.count)

\* One iteration of the loop of Debugger::run on a line of input
run_iteration(m, last_command, line) ==
    Bind(resolve(from_str(trim(line)), last_command), LAMBDA resolved :
        [m |-> dispatch(m, resolved),
         command |-> resolved,
         exited |-> resolved.ok /\ resolved.value = Exit,
         last_command |-> IF resolved.ok THEN Some(resolved.value) ELSE None])

MaxDebugLines == 3
\* INX, as many as the lines can step over
DebugCode == [i \in 1 .. 64 |-> \hE8]
DebugLines ==
    {<<>>, <<" ">>, <<"s">>, <<"s", "t", "e", "p">>,
     <<"s", "t", "e", "p", " ", "3">>, <<"s", " ", " ", "2">>, <<"s", " ", "1", "0">>,
     <<"e", "x", "i", "t">>, <<"q", "u", "i", "t">>, <<"e">>, <<"q">>,
     <<"x">>, <<"s", "3">>, <<"s", "t", "e", "p", " ", "x">>, <<"s", "t", "e", "p", "\n">>}

\* Debugger::new
InitDebugger ==
    \E checks \in BOOLEAN :
        Installed(nes_new(Cartridge(Rom(\h8000, DebugCode, NoData)), checks))

\* The state of the debugger: what the loop holds after the last line
Debugger ==
    IF obs.last.op \in {"run", "read_line"} THEN obs.last.ret
    ELSE [last_command |-> None, exited |-> FALSE]

\* Debugger::run up to the first prompt
Run ==
    /\ panic = NoPanic /\ obs.last.op = "none"
    /\ Commit(print_instruction(Machine))
    /\ ObservedLast(Observation("run", <<>>, [last_command |-> None, exited |-> FALSE],
                                print_instruction(Machine)))
    /\ UNCHANGED ops

Iterated(r, line) ==
    /\ Commit(r.m)
    /\ Observed(Observation("read_line", line,
           [command |-> r.command, last_command |-> r.last_command, exited |-> r.exited], r.m))

\* The loop of Debugger::run reads a line
ReadLine(line) ==
    /\ Running(MaxDebugLines)
    /\ obs.last.op \in {"run", "read_line"} /\ ~Debugger.exited
    /\ Iterated(run_iteration(Machine, Debugger.last_command, line), line)
    /\ ops' = ops + 1

NextDebugger == Run \/ \E line \in DebugLines : ReadLine(line)

SpecDebugger == InitDebugger /\ [][NextDebugger]_vars

\* The last line stepped n instructions (the program is INX throughout)
SteppedBy(n) ==
    /\ Len(obs.last.fetch) = n
    /\ cpu.reg.x = (obs.last.pre.cpu.reg.x + n) % 256
    /\ cpu.reg.pc = obs.last.pre.cpu.reg.pc + n

-----------------------------------------------------------------------------
(* The cartridge and its mapper, called directly.                          *)

MaxCartridgeOps == 2
CartridgeBanks == {1, 2, 3, 4, 5, 255}
CartridgeBytes == {\h00, \h5A}
CartridgeAddrs ==
    {\h0000, \h0001, \h1FFF, \h6000, \h8000, \h8001, \hBFFF, \hC000, \hC001, \hFFFF}

\* A mapper 0 cartridge of nprg banks; the second bank, where there is one,
\* begins with a byte of its own.
Banked(nprg) ==
    [Cartridge((0 :> \h11) @@ (1 :> \h33)
               @@ (IF nprg > 1 THEN PrgBank :> \h22 ELSE <<>>))
        EXCEPT !.nprg = nprg]

\* Cartridge::new and Interconnect::new, before any reset
InitCartridge ==
    \E nprg \in CartridgeBanks, checks \in BOOLEAN :
        Installed([cpu |-> new_cpu, interconnect |-> new_interconnect(Banked(nprg)),
                   ppu |-> new_ppu, panic |-> NoPanic, overflow_checks |-> checks,
                   log |-> <<>>, fetch |-> <<>>])

Called(name, arg, r) ==
    /\ Commit(r.m)
    /\ Observed(Observation(name, arg, r.v, r.m))

\* Mapper0::map_prg
MapPrg(addr) ==
    /\ Running(MaxCartridgeOps)
    /\ Called("map_prg", [addr |-> addr], map_prg(Machine, addr))
    /\ ops' = ops + 1

\* Cartridge::read
CartridgeRead(addr) ==
    /\ Running(MaxCartridgeOps)
    /\ Called("cartridge_read", [addr |-> addr], cartridge_read(Machine, addr))
    /\ ops' = ops + 1

\* Cartridge::write
CartridgeWrite(addr, x) ==
    /\ Running(MaxCartridgeOps)
    /\ Called("cartridge_write", [addr |-> addr, x |-> x],
              [m |-> cartridge_write(Machine, addr, x), v |-> 0])
    /\ ops' = ops + 1

NextCartridge ==
    \/ \E addr \in CartridgeAddrs \cap (\h8000 .. \hFFFF) : MapPrg(addr)
    \/ \E addr \in CartridgeAddrs : CartridgeRead(addr)
    \/ \E addr \in CartridgeAddrs, x \in CartridgeBytes : CartridgeWrite(addr, x)

SpecCartridge == InitCartridge /\ [][NextCartridge]_vars

\* C25: for every nprg in 1..255 and addr in 0x8000..0xFFFF, map_prg(addr)
\* returns (addr - 0x8000) mod (0x4000 * nprg) without error, an index inside
\* the PRG array of nprg * 16384 bytes; with nprg = 1 the reads at addr and
\* addr + 0x4000, addr in 0x8000..0xBFFF, return the same byte.
C25_Mapper0MapPrg ==
    LET nprg == obs.last.pre.interconnect.cartridge.nprg
        addr == obs.last.arg.addr
    IN  /\ obs.last.op = "map_prg"
            => /\ panic = NoPanic
               /\ obs.last.ret = (addr - \h8000) % (\h4000 * nprg)
               /\ obs.last.ret < PrgBank * nprg
        /\ (obs.last.op = "cartridge_read" /\ nprg = 1 /\ addr \in \h8000 .. \hBFFF)
            => /\ panic = NoPanic
               /\ obs.last.ret = cartridge_read(obs.last.pre, addr + \h4000).v

\* C26: under mapper 0, for addr in 0x0000..0x1FFF, Cartridge::read(addr)
\* returns chr[addr] and Cartridge::write(addr, x) stores x at chr[addr],
\* without a fatal error.
C26_ChrAccess ==
    LET chr == obs.last.pre.interconnect.cartridge.chr
    IN  /\ (obs.last.op = "cartridge_read" /\ obs.last.arg.addr \in 0 .. \h1FFF)
            => /\ panic = NoPanic
               /\ obs.last.ret = Get(chr, obs.last.arg.addr)
        /\ (obs.last.op = "cartridge_write" /\ obs.last.arg.addr \in 0 .. \h1FFF)
            => /\ panic = NoPanic
               /\ interconnect.cartridge.chr = Put(chr, obs.last.arg.addr, obs.last.arg.x)

-----------------------------------------------------------------------------
(* Cycle counts and the stack in short programs.                           *)

\* The flag test of each relative branch
BranchTaken(mnemonic, flags) ==
    CASE mnemonic = "BCC" -> ~flags.c
      [] mnemonic = "BCS" -> flags.c
      [] mnemonic = "BEQ" -> flags.z
      [] mnemonic = "BNE" -> ~flags.z
      [] mnemonic = "BMI" -> flags.n
      [] mnemonic = "BPL" -> ~flags.n
      [] mnemonic = "BVC" -> ~flags.v
      [] mnemonic = "BVS" -> flags.v

\* C27: a step of a relative branch returns 2 cycles when the branch is not
\* taken, 3 when it is taken to a target on the page of the post-increment PC
\* and 4 when it is taken to another page; when not taken PC is the
\* post-increment PC.
C27_BranchCycles ==
    (CpuStepped /\ Stepped.ok /\ Stepped.address_mode = "Relative") =>
        LET after == (obs.last.pre.cpu.reg.pc + 2) % 65536
            offset == IF Operand >= 128 THEN Operand - 256 ELSE Operand
            target == (after + offset) % 65536
            taken == BranchTaken(Stepped.mnemonic, obs.last.pre.cpu.flags)
        IN  /\ panic = NoPanic
            /\ obs.last.ret.cycles =
                   IF ~taken THEN 2
                   ELSE IF target \div 256 = after \div 256 THEN 3 ELSE 4
            /\ ~taken => cpu.reg.pc = after

\* C28: a step of STA, STX, STY, ASL, LSR, ROL, ROR, INC or DEC in Absolute,X,
\* Absolute,Y or (Indirect),Y mode returns the decoder's base cycle count,
\* whether or not the indexed address crosses a page.
C28_NoStorePenalty ==
    (/\ CpuStepped /\ Stepped.ok /\ panic = NoPanic
     /\ Stepped.mnemonic \in {"STA", "STX", "STY", "ASL", "LSR", "ROL", "ROR", "INC", "DEC"}
     /\ Stepped.address_mode \in {"AbsoluteXIndexed", "AbsoluteYIndexed", "IndirectYIndexed"})
        => obs.last.ret.cycles = Stepped.cycles

\* The bytes the last step wrote, in order
Written == [i \in 1 .. Len(SelectSeq(obs.last.log, LAMBDA e : e.k = "w")) |->
               SelectSeq(obs.last.log, LAMBDA e : e.k = "w")[i].x]

\* N V - - D I Z C
Packed(flags) ==
    128 * BoolU8(flags.n) + 64 * BoolU8(flags.v) + 8 * BoolU8(flags.d)
        + 4 * BoolU8(flags.i) + 2 * BoolU8(flags.z) + BoolU8(flags.c)

\* C29: a step of BRK at address P pushes the high byte and then the low byte
\* of P + 2, then the status byte with bits 4 and 5 set and I as it was before
\* the BRK, then sets I and loads PC from the word at 0xFFFE/0xFFFF; it
\* returns 7 cycles.
C29_BrkOrdering ==
    (Executed(\h00) /\ panic = NoPanic) =>
        LET return == (obs.last.pre.cpu.reg.pc + 2) % 65536
        IN  /\ Written = <<return \div 256, return % 256,
                           Packed(obs.last.pre.cpu.flags) + \h30>>
            /\ cpu.flags.i
            /\ cpu.reg.pc = Before(\hFFFE) + 256 * Before(\hFFFF)
            /\ obs.last.ret.cycles = 7

\* C30: the status byte that PHP or BRK writes to the stack has bits 5 and 4
\* set and N, V, D, I, Z, C in bits 7, 6, 3, 2, 1, 0, whatever the flags are
\* (I apart in BRK, which sets it).
C30_PushedStatus ==
    ((Executed(\h08) \/ Executed(\h00)) /\ panic = NoPanic) =>
        LET status == Written[Len(Written)]
            layout == IF Executed(\h00) THEN \hCB ELSE \hCF
        IN  /\ Len(Written) > 0
            /\ BitAnd(status, \h30) = \h30
            /\ BitAnd(status, layout) = BitAnd(Packed(obs.last.pre.cpu.flags), layout)

-----------------------------------------------------------------------------
(* Flags and results of single instructions in short programs.             *)

\* The byte the last step pulled: its first read after the opcode
Pulled == obs.last.log[2].x

\* C31: after PLP or RTI the flags do not depend on bits 4 and 5 of the byte
\* pulled: N, V, D, I, Z, C are its bits 7, 6, 3, 2, 1, 0, and the B flag is
\* not set, after these or any other instructions executed from reset.
C31_PulledStatus ==
    /\ ~cpu.flags.b
    /\ ((Executed(\h28) \/ Executed(\h40)) /\ panic = NoPanic)
           => Packed(cpu.flags) = BitAnd(Pulled, \hCF)

\* The byte the last step read last: the operand value of a compare or BIT
Value == obs.last.log[Len(obs.last.log)].x

\* The register a compare instruction compares
Compared(mnemonic) ==
    CASE mnemonic = "CMP" -> "a" [] mnemonic = "CPX" -> "x" [] mnemonic = "CPY" -> "y"

\* C32: a step of CMP, CPX or CPY with register value R and operand M
\* completes and sets C = (R >= M), Z = (R = M) and N = bit 7 of
\* (R - M) mod 256, and leaves the register unchanged.
C32_CompareFlags ==
    (CpuStepped /\ Stepped.ok /\ Stepped.mnemonic \in {"CMP", "CPX", "CPY"}) =>
        LET R == obs.last.pre.cpu.reg[Compared(Stepped.mnemonic)]
            M == Value
        IN  /\ panic = NoPanic
            /\ cpu.flags.c = (R >= M)
            /\ cpu.flags.z = (R = M)
            /\ cpu.flags.n = ((R - M) % 256 >= 128)
            /\ cpu.reg[Compared(Stepped.mnemonic)] = R

\* C33: a step of BIT with accumulator A and operand M sets N = bit 7 of M,
\* V = bit 6 of M and Z = ((A & M) = 0), and leaves A, C, I and D unchanged.
C33_BitFlags ==
    (CpuStepped /\ Stepped.ok /\ Stepped.mnemonic = "BIT" /\ panic = NoPanic) =>
        LET A == obs.last.pre.cpu.reg.a
            M == Value
        IN  /\ cpu.flags.n = (BitAnd(M, \h80) # 0)
            /\ cpu.flags.v = (BitAnd(M, \h40) # 0)
            /\ cpu.flags.z = (BitAnd(A, M) = 0)
            /\ cpu.reg.a = A
            /\ cpu.flags.c = obs.last.pre.cpu.flags.c
            /\ cpu.flags.i = obs.last.pre.cpu.flags.i
            /\ cpu.flags.d = obs.last.pre.cpu.flags.d

\* The operand value of a shift or rotate: A, or the byte read at the address
ShiftOperand ==
    IF Stepped.address_mode = "Accumulator" THEN obs.last.pre.cpu.reg.a
    ELSE obs.last.log[Len(obs.last.log) - 1].x

\* C34: after ASL or ROL of v the C flag is bit 7 of v, after LSR or ROR it is
\* bit 0 of v; the result goes to A in Accumulator mode and is written to the
\* resolved address in memory modes.
C34_ShiftCarry ==
    (/\ CpuStepped /\ Stepped.ok /\ panic = NoPanic
     /\ Stepped.mnemonic \in {"ASL", "ROL", "LSR", "ROR"})
        => /\ cpu.flags.c = IF Stepped.mnemonic \in {"ASL", "ROL"}
                            THEN ShiftOperand >= 128 ELSE ShiftOperand % 2 = 1
           /\ IF Stepped.address_mode = "Accumulator"
              THEN Written = <<>>
              ELSE /\ Len(Written) = 1
                   /\ obs.last.log[Len(obs.last.log)].k = "w"
                   /\ obs.last.log[Len(obs.last.log)].a = obs.last.log[Len(obs.last.log) - 1].a
                   /\ cpu.reg.a = obs.last.pre.cpu.reg.a

\* C35: a step of CMP, CPX or CPY leaves the V, D, I and B flags as they were.
C35_CompareFrame ==
    (/\ CpuStepped /\ Stepped.ok /\ panic = NoPanic
     /\ Stepped.mnemonic \in {"CMP", "CPX", "CPY"})
        => /\ cpu.flags.v = obs.last.pre.cpu.flags.v
           /\ cpu.flags.d = obs.last.pre.cpu.flags.d
           /\ cpu.flags.i = obs.last.pre.cpu.flags.i
           /\ cpu.flags.b = obs.last.pre.cpu.flags.b

\* C36: a step of ADC, AND or SBC, in Immediate or any memory mode, writes no
\* memory byte and completes with its result in A; for AND, A becomes A & M
\* with N and Z set from it.
C36_AccumulatorResults ==
    (CpuStepped /\ Stepped.ok /\ Stepped.mnemonic \in {"ADC", "AND", "SBC"}) =>
        LET A == obs.last.pre.cpu.reg.a
            M == obs.last.log[Len(obs.last.fetch) +
                              (IF Stepped.address_mode = "Immediate" THEN 0 ELSE 1)].x
        IN  /\ panic = NoPanic
            /\ Written = <<>>
            /\ interconnect = obs.last.pre.interconnect
            /\ Stepped.mnemonic = "AND"
                   => /\ cpu.reg.a = BitAnd(A, M)
                      /\ cpu.flags.z = (BitAnd(A, M) = 0)
                      /\ cpu.flags.n = (BitAnd(A, M) >= 128)

\* C37: JSR target at address P followed at once by the RTS at the target
\* leaves PC = P + 3 and SP as it was before the JSR. (The JSR is the first
\* instruction after reset, so P is the reset vector and SP was 0xFD.)
C37_CallReturn ==
    (/\ Executed(\h60) /\ ops = 2
     /\ cpu_read(Machine, ResetVector(Machine)).v = \h20)
        => /\ panic = NoPanic
           /\ cpu.reg.pc = ResetVector(Machine) + 3
           /\ cpu.reg.sp = \hFD

\* C38: the I flag changes only in steps of SEI, CLI, BRK, PLP or RTI and the
\* D flag only in steps of SED, CLD, PLP or RTI.
C38_StableFlags ==
    (CpuStepped /\ Stepped.ok /\ panic = NoPanic) =>
        /\ Stepped.mnemonic \notin {"SEI", "CLI", "BRK", "PLP", "RTI"}
               => cpu.flags.i = obs.last.pre.cpu.flags.i
        /\ Stepped.mnemonic \notin {"SED", "CLD", "PLP", "RTI"}
               => cpu.flags.d = obs.last.pre.cpu.flags.d

-----------------------------------------------------------------------------
(* The decoder's cycle counts and the decoding of bus addresses.           *)

\* The base cycles of a read-modify-write instruction in each memory mode
ModifyCycles ==
    ("ZeroPage" :> 5) @@ ("ZeroPageXIndexed" :> 6) @@ ("Absolute" :> 6)
        @@ ("AbsoluteXIndexed" :> 7)

\* C39: from_code gives ASL, LSR, ROL, ROR, INC and DEC the same base cycle
\* count in each memory mode: ZeroPage 5, ZeroPage,X 6, Absolute 6,
\* Absolute,X 7.
C39_ModifyCycles ==
    (/\ obs.last.op = "from_code" /\ obs.last.ret.instruction.ok
     /\ obs.last.ret.instruction.mnemonic \in {"ASL", "LSR", "ROL", "ROR", "INC", "DEC"}
     /\ obs.last.ret.instruction.address_mode \in DOMAIN ModifyCycles)
        => obs.last.ret.instruction.cycles =
               ModifyCycles[obs.last.ret.instruction.address_mode]

\* C40: for every address cpu_read and cpu_write select one of the named
\* range arms; the catch-all arm of neither is ever reached.
C40_ExhaustiveDecoding ==
    panic \notin {"catch-all arm of cpu_read", "catch-all arm of cpu_write"}
====
